---- MODULE Spec2Model ----
(***************************************************************************)
(* A model of the extraction engine of the Basketball Reference scraper    *)
(* (src/src/ingestion/basketball_ref_scraper.py).                          *)
(*                                                                         *)
(* Texts are sequences of tokens.  A token is one character (a digit, a    *)
(* blank, "x", "-", ...) or one literal of the scraper's regular           *)
(* expressions and markers ("NBA", "MVP", "Def.", "<table", ...), which    *)
(* the expressions can only match as a whole.                              *)
(***************************************************************************)
EXTENDS Integers, Sequences, FiniteSets, TLC

VARIABLES
    text, patterns, max_val, count, cpc,     \* one call of _extract_count
    html_text,                               \* the document of a call on a page
    accolades, apc,                          \* one call of _count_accolades
    data_stat_identifier, search_pattern,    \* one call of _extract_table_surgically:
    start_pos, table_start, table_end,       \*   its argument and its locals (-1: not
    table_html, lpc,                         \*   assigned), lpc its position
    upc,                                     \* the comment unmasking of a region text
    table, career_row, rpc,                   \* the row selection of a parsed table
    row_cells, stats, xpc,                     \* the cell extraction from a selected row
    all_data, order, player, ypc,             \* the typed assembly of a merged field map
    subject, response, selected, failed, stage, result, to_dict_data, storage_calls, save_result, spc,   \* scrape_player and save_player_data
    max_retries, attempt, outcomes, sleeps, since_last, returned, mpc,   \* _make_request
    now, last_request_time, get_times, stamps, rate_sleeps,   \* _rate_limit over a series of requests
    clock, shared_last, tpc, telapsed, wake, issued,   \* two threads in _rate_limit
    info, bpc,   \* _parse_bio_info
    remaining, driver_log, successful, failed_players, dpc,   \* main
    fs_files, fs_dirs, last_call   \* LocalDataStore

cvars == <<text, patterns, max_val, count, cpc>>
avars == <<accolades, apc>>
lvars == <<data_stat_identifier, search_pattern, start_pos, table_start, table_end, lpc>>
rvars == <<table, career_row, rpc>>
xvars == <<row_cells, stats, xpc>>
yvars == <<all_data, order, player, ypc>>
svars == <<subject, response, selected, failed, stage, result, to_dict_data, storage_calls, save_result, spc>>
mvars == <<max_retries, attempt, outcomes, sleeps, since_last, returned, mpc>>
tvars == <<now, last_request_time, get_times, stamps, rate_sleeps>>
pvars == <<clock, shared_last, tpc, telapsed, wake, issued>>
bvars == <<info, bpc>>
dvars == <<remaining, driver_log, successful, failed_players, dpc>>
fvars == <<fs_files, fs_dirs, last_call>>
vars == <<cvars, html_text, avars, lvars, table_html, upc, rvars, xvars, yvars, svars, mvars, tvars, pvars, bvars, dvars, fvars>>

\* Bounds of the model: the tokens of a text and of a document.
MaxLen == 6
MaxDoc == 5
MaxRows == 3
MaxCells == 4
MaxRetries == 3
MaxRequests == 3
MaxTime == 8
MaxBio == 5

\* The variables of the calls a specification does not make.
IdleCount == text = <<>> /\ patterns = <<>> /\ max_val = 0 /\ count = 0 /\ cpc = "idle"
IdleAccolades == accolades = <<>> /\ apc = "idle"
IdleLocator ==
    /\ data_stat_identifier = "" /\ search_pattern = "" /\ start_pos = -1
    /\ table_start = -1 /\ table_end = -1 /\ lpc = "idle"
IdleUnmask == upc = "idle"
IdleRows == table = <<>> /\ career_row = 0 /\ rpc = "idle"
IdleCells == row_cells = <<>> /\ stats = <<>> /\ xpc = "idle"
IdleAssembly == all_data = <<>> /\ order = <<>> /\ player = <<>> /\ ypc = "idle"
IdleScrape ==
    /\ subject = <<>> /\ response = "" /\ selected = <<>> /\ failed = <<>> /\ stage = <<>>
    /\ result = "" /\ to_dict_data = <<>> /\ storage_calls = <<>>
    /\ save_result = "" /\ spc = "idle"
IdleRequest == max_retries = 0 /\ attempt = 0 /\ outcomes = <<>> /\ sleeps = <<>> /\ since_last = 0 /\ returned = "" /\ mpc = "idle"
IdleRate == now = 0 /\ last_request_time = 0 /\ get_times = <<>> /\ stamps = <<>> /\ rate_sleeps = <<>>
IdleThreads == clock = 0 /\ shared_last = 0 /\ tpc = <<>> /\ telapsed = <<>> /\ wake = <<>> /\ issued = <<>>
IdleBio == info = <<>> /\ bpc = "idle"
IdleMain == remaining = <<>> /\ driver_log = <<>> /\ successful = 0 /\ failed_players = 0 /\ dpc = "idle"
IdleStore == fs_files = <<>> /\ fs_dirs = {} /\ last_call = <<>>

(***************************************************************************)
(* Tokens and character classes of the regular expressions.                *)
(***************************************************************************)
Digit == {"0", "1", "2", "3", "4", "5", "6", "7", "8", "9"}
Space == {" ", "\n"}
\* [×x] under re.IGNORECASE; "U+00D7" stands for the multiplication sign.
Times == {"x", "X", "U+00D7"}

DigitVal(d) ==
    CASE d = "0" -> 0 [] d = "1" -> 1 [] d = "2" -> 2 [] d = "3" -> 3
      [] d = "4" -> 4 [] d = "5" -> 5 [] d = "6" -> 6 [] d = "7" -> 7
      [] d = "8" -> 8 [] d = "9" -> 9

\* The character a token starts with, or ends with, is a word character (\w).
StartsWord(t) == t \notin (Space \cup {"-", "<ul id=\"bling\">", "</ul>"})
EndsWord(t) == t \notin (Space \cup {"-", "Def.", "<ul id=\"bling\">", "</ul>"})

\* \b at position pos (before txt[pos]; pos = Len(txt) + 1 is the end).
Boundary(txt, pos) ==
    LET left == pos > 1 /\ EndsWord(txt[pos - 1])
        right == pos <= Len(txt) /\ StartsWord(txt[pos])
    IN  left # right

(***************************************************************************)
(* Regular expressions: a sequence of items, each a class of tokens with   *)
(* a greedy quantifier {lo,hi} (hi = -1: unbounded), or the assertion \b.  *)
(* cap marks the item as capture group 1; grp > 0 puts the item into the   *)
(* optional non-capturing group (?: ... )? of that number.                 *)
(***************************************************************************)
Rep(cls, lo, hi) == [k |-> "cls", cls |-> cls, lo |-> lo, hi |-> hi, cap |-> FALSE, grp |-> 0]
Lit(t) == Rep({t}, 1, 1)
Cap(item) == [item EXCEPT !.cap = TRUE]
InGrp(item, g) == [item EXCEPT !.grp = g]
WordB == [k |-> "wb", cls |-> {}, lo |-> 0, hi |-> 0, cap |-> FALSE, grp |-> 0]

NoMatch == [ok |-> FALSE, start |-> 0, end |-> 0, cap |-> <<>>]

\* The number of tokens of class cls at txt[pos..], at most hi of them.
RECURSIVE RunLen(_, _, _, _)
RunLen(txt, pos, cls, hi) ==
    IF pos > Len(txt) \/ hi = 0 \/ txt[pos] \notin cls THEN 0
    ELSE 1 + RunLen(txt, pos + 1, cls, IF hi < 0 THEN hi ELSE hi - 1)

\* The last item of the optional group that starts at item i.
RECURSIVE GroupEnd(_, _)
GroupEnd(p, i) ==
    IF i < Len(p) /\ p[i + 1].grp = p[i].grp THEN GroupEnd(p, i + 1) ELSE i

\* re's backtracking match of expression p at txt[start..]: M[i, pos] is the
\* match of items p[i..] at txt[pos..].  A quantifier is greedy: the largest
\* count that lets the rest match wins; an optional group is tried first and
\* skipped when the rest cannot match with it.  cap is group 1 (<<>>: the
\* group did not participate, which Python reports as None).
MatchAt(p, txt, start) ==
    LET M[i \in 1..(Len(p) + 1), pos \in 1..(Len(txt) + 1)] ==
            IF i > Len(p) THEN [ok |-> TRUE, start |-> start, end |-> pos, cap |-> <<>>]
            ELSE IF p[i].k = "wb"
            THEN IF Boundary(txt, pos) THEN M[i + 1, pos] ELSE NoMatch
            ELSE LET good == {n \in p[i].lo..RunLen(txt, pos, p[i].cls, p[i].hi) :
                                 M[i + 1, pos + n].ok}
                 IN  IF good # {}
                     THEN LET n == CHOOSE x \in good : \A y \in good : y <= x
                          IN  IF p[i].cap
                              THEN [M[i + 1, pos + n] EXCEPT !.cap = SubSeq(txt, pos, pos + n - 1)]
                              ELSE M[i + 1, pos + n]
                     ELSE IF p[i].grp > 0 /\ (i = 1 \/ p[i - 1].grp # p[i].grp)
                     THEN M[GroupEnd(p, i) + 1, pos]
                     ELSE NoMatch
    IN  M[1, start]

\* re.search(p, txt, re.IGNORECASE): the match at the leftmost start.
\* A match of p can start at txt[s]: a first item that must consume a token
\* finds one of its class there.
CanStart(p, txt, s) ==
    (p[1].k = "cls" /\ p[1].lo > 0 /\ p[1].grp = 0) => (s <= Len(txt) /\ txt[s] \in p[1].cls)

Search(p, txt) ==
    LET starts == {s \in 1..(Len(txt) + 1) : CanStart(p, txt, s) /\ MatchAt(p, txt, s).ok}
    IN  IF starts = {} THEN NoMatch
        ELSE MatchAt(p, txt, CHOOSE s \in starts : \A t \in starts : s <= t)

\* match.groups() is non-empty: the expression has a capture group.
HasGroup(p) == \E i \in 1..Len(p) : p[i].cap

\* int(match.group(1)) of a run of digits.
RECURSIVE ToInt(_)
ToInt(ds) == IF ds = <<>> THEN 0 ELSE 10 * ToInt(SubSeq(ds, 1, Len(ds) - 1)) + DigitVal(ds[Len(ds)])

(***************************************************************************)
(* The accolade expressions of _count_accolades, as written in the source. *)
(***************************************************************************)
\* (\d+)\s*[xX]\s* with the multiplication sign in the class
Multiplier == <<Cap(Rep(Digit, 1, -1)), Rep(Space, 0, -1), Rep(Times, 1, 1), Rep(Space, 0, -1)>>

ChampPatterns == << Multiplier \o <<Lit("NBA"), Rep(Space, 1, -1), Lit("Champ")>> >>

MvpPatterns ==
    << Multiplier \o <<Lit("NBA"), Rep(Space, 1, -1), Lit("MVP")>>,
       Multiplier \o <<Lit("MVP")>> >>

FinalsMvpPatterns == << Multiplier \o <<Lit("Finals"), Rep(Space, 1, -1), Lit("MVP")>> >>

AllStarPatterns ==
    << Multiplier \o <<Lit("All"), Rep(Space, 1, -1), Lit("Star")>>,
       Multiplier \o <<Lit("All-Star")>>,
       <<Cap(Rep(Digit, 1, -1)), Rep(Space, 1, -1), Lit("All-Star")>> >>

AllNbaPatterns == << Multiplier \o <<Lit("All-NBA")>> >>

AllDefensivePatterns == << Multiplier \o <<Lit("All-Defensive")>> >>

DpoyPatterns ==
    << <<Cap(Rep(Digit, 1, 2)), Rep(Space, 0, -1), Rep(Times, 1, 1), Rep(Space, 0, -1),
         Lit("Def."), Rep(Space, 0, -1), Lit("POY")>>,
       <<WordB, Rep(Digit, 4, 4), Lit("-"), Rep(Digit, 2, 2), Rep(Space, 0, -1),
         Lit("Def."), Rep(Space, 0, -1), Lit("POY"), WordB>>,
       <<WordB, Lit("Def."), Rep(Space, 0, -1), Lit("POY"), WordB>> >>

ScoringPatterns ==
    << <<InGrp(Cap(Rep(Digit, 1, -1)), 1), InGrp(Rep(Space, 0, -1), 1),
         InGrp(Rep(Times, 1, 1), 1), InGrp(Rep(Space, 0, -1), 1),
         InGrp(Lit("NBA"), 2), InGrp(Rep(Space, 1, -1), 2),
         Lit("Scoring"), Rep(Space, 1, -1), Rep({"Champion", "Champ", "Leader"}, 1, 1)>> >>

\* max_val: the default of _extract_count, and the value passed for dpoy_awards.
DefaultMaxVal == 50
DpoyMaxVal == 10

(***************************************************************************)
(* _extract_count                                                          *)
(***************************************************************************)
\* A variant that does not imply a single award: no captured number counts 0.
CountOfMatchNoImplied(m, p, mx) ==
    IF HasGroup(p) /\ m.cap # <<>>
    THEN IF 1 <= ToInt(m.cap) /\ ToInt(m.cap) <= mx THEN ToInt(m.cap) ELSE 1
    ELSE 0

\* The body of "if match:" for the match m of expression p.
CountOfMatch(m, p, mx) ==
    IF HasGroup(p) /\ m.cap # <<>> /\ 1 <= ToInt(m.cap) /\ ToInt(m.cap) <= mx
    THEN ToInt(m.cap)
    ELSE 1

\* The loop over the expressions, from the i-th on (m: the match object).
RECURSIVE ExtractFrom(_, _, _, _)
ExtractFrom(txt, pats, i, mx) ==
    IF i > Len(pats) THEN 0
    ELSE CHOOSE r \in { IF m.ok THEN CountOfMatch(m, pats[i], mx)
                        ELSE ExtractFrom(txt, pats, i + 1, mx) :
                        m \in {Search(pats[i], txt)} } : TRUE

\* A variant in which the last expression of the list that matches decides.
extract_count_last(txt, pats, mx) ==
    LET hits == {i \in 1..Len(pats) : Search(pats[i], txt).ok}
    IN  IF hits = {} THEN 0
        ELSE CHOOSE r \in { CountOfMatch(Search(pats[i], txt), pats[i], mx) :
                            i \in {CHOOSE k \in hits : \A j \in hits : j <= k} } : TRUE

\* A variant that returns the captured number whatever max_val is.
extract_count_unchecked(txt, pats, mx) == ExtractFrom(txt, pats, 1, 100 + mx)

extract_count(txt, pats, mx) == ExtractFrom(txt, pats, 1, mx)

(***************************************************************************)
(* Calls of _extract_count: an expression list of the source with its      *)
(* max_val, on every text of at most MaxLen tokens over the tokens the     *)
(* list's expressions read.                                                *)
(***************************************************************************)
RECURSIVE SeqsUpTo(_, _)
SeqsUpTo(S, n) ==
    IF n = 0 THEN {<<>>}
    ELSE LET shorter == SeqsUpTo(S, n - 1)
         IN  shorter \cup {Append(s, t) : s \in {q \in shorter : Len(q) = n - 1}, t \in S}

CountCalls ==
    { [pats |-> AllStarPatterns, mx |-> DefaultMaxVal, len |-> MaxLen,
       alpha |-> {"7", "x", " ", "All-Star"}],
      [pats |-> DpoyPatterns, mx |-> DpoyMaxVal, len |-> MaxLen - 1,
       alpha |-> {"7", "x", " ", "Def.", "POY"}],
      [pats |-> ScoringPatterns, mx |-> DefaultMaxVal, len |-> MaxLen - 1,
       alpha |-> {"7", "x", " ", "Scoring", "Champ"}],
      [pats |-> AllNbaPatterns, mx |-> DefaultMaxVal, len |-> MaxLen - 2,
       alpha |-> {"7", "0", "x", " ", "All-NBA"}] }

InitCount ==
    \E c \in CountCalls :
        /\ patterns = c.pats
        /\ max_val = c.mx
        /\ text \in SeqsUpTo(c.alpha, c.len)
        /\ count = 0
        /\ cpc = "call"
        /\ html_text = <<>>
        /\ table_html = <<>>
        /\ IdleAccolades /\ IdleLocator /\ IdleUnmask /\ IdleRows
        /\ IdleCells
        /\ IdleAssembly
        /\ IdleScrape
        /\ IdleRequest
        /\ IdleRate
        /\ IdleThreads
        /\ IdleBio
        /\ IdleMain
        /\ IdleStore

ExtractCount ==
    /\ cpc = "call"
    /\ count' = extract_count(text, patterns, max_val)
    /\ cpc' = "done"
    /\ UNCHANGED <<text, patterns, max_val, html_text, avars, lvars, table_html, upc, rvars, xvars, yvars, svars, mvars, tvars, pvars, bvars, dvars, fvars>>

NextCount == ExtractCount
SpecCount == InitCount /\ [][NextCount]_vars

(***************************************************************************)
(* Claims about _extract_count.                                            *)
(***************************************************************************)
\* The index of the first expression of the list that matches the text (0: none).
FirstMatch(txt, pats) ==
    LET hits == {i \in 1..Len(pats) : Search(pats[i], txt).ok}
    IN  IF hits = {} THEN 0 ELSE CHOOSE i \in hits : \A j \in hits : i <= j

\* The integer that expression i of the list captured in its match (-1: none).
Captured(txt, pats, i) ==
    IF i = 0 THEN -1
    ELSE CHOOSE v \in { IF m.cap = <<>> THEN -1 ELSE ToInt(m.cap) :
                        m \in {Search(pats[i], txt)} } : TRUE

\* C1: when the first matching expression captured an integer outside
\* 1..max_val, the match counts as no match: the result is what the later
\* expressions of the list give, and 0 when none of them matches.
C1_OutOfRangeFallsThrough ==
    cpc = "done" =>
        \A i \in {FirstMatch(text, patterns)} : \A n \in {Captured(text, patterns, i)} :
            (n >= 0 /\ ~(1 <= n /\ n <= max_val))
            => \A rest \in {SubSeq(patterns, i + 1, Len(patterns))} :
                  /\ count = extract_count(text, rest, max_val)
                  /\ FirstMatch(text, rest) = 0 => count = 0

\* C2: the result is N when the first matching expression captured N in
\* 1..max_val, 1 when it has no capture group or its group did not
\* participate, and 0 when no expression matches.
C2_SurfaceCases ==
    cpc = "done" =>
        \A i \in {FirstMatch(text, patterns)} : \A n \in {Captured(text, patterns, i)} :
            /\ (i = 0) => count = 0
            /\ (i > 0 /\ 1 <= n /\ n <= max_val) => count = n
            /\ (i > 0 /\ n = -1) => count = 1

\* The optional capture group of the matching expression did not participate.
C2_Witness ==
    /\ cpc = "done"
    /\ patterns = ScoringPatterns
    /\ FirstMatch(text, patterns) = 1
    /\ Captured(text, patterns, 1) = -1
    /\ count = 1

\* C3: the first expression of the list that matches decides the result: the
\* result is that of the list cut after it, and that of its match alone,
\* whatever the later expressions match.
C3_FirstMatchDecides ==
    cpc = "done" =>
        \A i \in {FirstMatch(text, patterns)} :
            i > 0 =>
              /\ \A cut \in {SubSeq(patterns, 1, i)} : count = extract_count(text, cut, max_val)
              /\ \A m \in {Search(patterns[i], text)} : count = CountOfMatch(m, patterns[i], max_val)

\* A later expression of the list matches too, at an earlier offset.
C3_Witness ==
    /\ cpc = "done"
    /\ count = 7
    /\ \E i \in {FirstMatch(text, patterns)} :
           /\ i > 0
           /\ \E j \in (i + 1)..Len(patterns) :
                 /\ Search(patterns[j], text).ok
                 /\ Search(patterns[j], text).start < Search(patterns[i], text).start

(***************************************************************************)
(* _extract_bling_section and _count_accolades                             *)
(***************************************************************************)
\* The tags <ul[^>]*id="bling"[^>]*> and </ul>, each one token.
BlingOpen == "<ul id=\"bling\">"
UlClose == "</ul>"

\* re.search(r'<ul[^>]*id="bling"[^>]*>.*?</ul>', html, IGNORECASE | DOTALL):
\* from the first opening tag that a closing tag follows, to the nearest
\* closing tag (<<>>: no match, the source's None).
extract_bling_section(html) ==
    LET opens == {o \in 1..Len(html) :
                     html[o] = BlingOpen /\ \E c \in (o + 1)..Len(html) : html[c] = UlClose}
    IN  IF opens = {} THEN <<>>
        ELSE LET o == CHOOSE x \in opens : \A y \in opens : x <= y
                 c == CHOOSE x \in (o + 1)..Len(html) :
                         html[x] = UlClose /\ \A y \in (o + 1)..(x - 1) : html[y] # UlClose
             IN  SubSeq(html, o, c)

Categories ==
    {"championships", "mvp_awards", "finals_mvp_awards", "scoring_titles",
     "all_star_selections", "all_nba_selections", "all_defensive_selections", "dpoy_awards"}

\* The counts of the try block, the dpoy_awards expressions run on bling_html.
AccoladesOn(html, bling_html) ==
    [championships |-> extract_count(html, ChampPatterns, DefaultMaxVal),
     mvp_awards |-> extract_count(html, MvpPatterns, DefaultMaxVal),
     finals_mvp_awards |-> extract_count(html, FinalsMvpPatterns, DefaultMaxVal),
     all_star_selections |-> extract_count(html, AllStarPatterns, DefaultMaxVal),
     all_nba_selections |-> extract_count(html, AllNbaPatterns, DefaultMaxVal),
     all_defensive_selections |-> extract_count(html, AllDefensivePatterns, DefaultMaxVal),
     dpoy_awards |-> extract_count(bling_html, DpoyPatterns, DpoyMaxVal),
     scoring_titles |-> extract_count(html, ScoringPatterns, DefaultMaxVal)]

\* A variant that runs the dpoy_awards expressions on the whole page.
count_accolades_unscoped(html) == AccoladesOn(html, html)

\* bling_html = self._extract_bling_section(html_text) or ""
count_accolades(html) ==
    CHOOSE a \in {AccoladesOn(html, b) : b \in {extract_bling_section(html)}} : TRUE

\* "1987-88", the season of a single award.
Season == <<"1", "9", "8", "7", "-", "8", "8">>

\* The pages: an award list of at most MaxDoc - 1 tokens on a page without
\* markup; at most MaxDoc tokens and tags around a Def. POY mention; and such
\* a page of at most MaxDoc - 1 tokens with a season put into it.
Pages ==
    SeqsUpTo({"7", "x", " ", "NBA", "Champ", "MVP"}, MaxDoc - 1)
    \cup SeqsUpTo({BlingOpen, UlClose, "Def.", " ", "POY"}, MaxDoc)
    \cup { SubSeq(d, 1, k) \o Season \o SubSeq(d, k + 1, Len(d)) :
             <<d, k>> \in { <<e, j>> \in SeqsUpTo({BlingOpen, UlClose, "Def.", "POY"}, MaxDoc - 1)
                                         \X (0..(MaxDoc - 1)) : j <= Len(e) } }

InitAccolades ==
    /\ html_text \in Pages
    /\ accolades = <<>>
    /\ apc = "call"
    /\ table_html = <<>>
    /\ IdleCount /\ IdleLocator /\ IdleUnmask /\ IdleRows
    /\ IdleCells
    /\ IdleAssembly
    /\ IdleScrape
    /\ IdleRequest
    /\ IdleRate
    /\ IdleThreads
    /\ IdleBio
    /\ IdleMain
    /\ IdleStore

CountAccolades ==
    /\ apc = "call"
    /\ accolades' = count_accolades(html_text)
    /\ apc' = "done"
    /\ UNCHANGED <<cvars, html_text, lvars, table_html, upc, rvars, xvars, yvars, svars, mvars, tvars, pvars, bvars, dvars, fvars>>

NextAccolades == CountAccolades
SpecAccolades == InitAccolades /\ [][NextAccolades]_vars

(***************************************************************************)
(* Claims about _count_accolades.                                          *)
(***************************************************************************)
\* Token k of the page lies inside the <ul id="bling"> ... </ul> sub-region:
\* after the first opening tag and before the first closing tag after that.
InsideBling(html, k) ==
    \E o \in 1..(k - 1) :
        /\ html[o] = BlingOpen
        /\ \A y \in 1..(o - 1) : html[y] # BlingOpen
        /\ \A y \in o..k : html[y] # UlClose
        /\ \E c \in (k + 1)..Len(html) : html[c] = UlClose

\* C4: a Def. POY mention is counted only inside the <ul id="bling"> sub-region:
\* a page whose mentions all lie outside it, or that has none, gets dpoy_awards = 0.
C4_DpoyScoped ==
    apc = "done" =>
        /\ accolades.dpoy_awards > 0
              => \E k \in 1..Len(html_text) : html_text[k] = "Def." /\ InsideBling(html_text, k)
        /\ extract_bling_section(html_text) = <<>> => accolades.dpoy_awards = 0

\* A Def. POY mention outside an existing sub-region that holds none.
C4_Witness ==
    /\ apc = "done"
    /\ extract_bling_section(html_text) # <<>>
    /\ extract_count(html_text, DpoyPatterns, DpoyMaxVal) = 1
    /\ accolades.dpoy_awards = 0

\* The label of a category, as a page states it without a multiplier.
BareLabel(cat) ==
    CASE cat = "championships" -> <<"NBA", " ", "Champ">>
      [] cat = "mvp_awards" -> <<"MVP">>
      [] cat = "finals_mvp_awards" -> <<"Finals", " ", "MVP">>
      [] cat = "scoring_titles" -> <<"Scoring", " ", "Champ">>
      [] cat = "all_star_selections" -> <<"All-Star">>
      [] cat = "all_nba_selections" -> <<"All-NBA">>
      [] cat = "all_defensive_selections" -> <<"All-Defensive">>
      [] cat = "dpoy_awards" -> <<"Def.", " ", "POY">>

\* The page states the category's award: the label occurs (for dpoy_awards,
\* inside the sub-region).
Asserts(html, cat) ==
    \E k \in 1..Len(html) :
        /\ k + Len(BareLabel(cat)) - 1 <= Len(html)
        /\ SubSeq(html, k, k + Len(BareLabel(cat)) - 1) = BareLabel(cat)
        /\ cat = "dpoy_awards" => InsideBling(html, k)

\* C5: for every category, a page that states the award and holds no
\* multiplier gets count 1 for the category.
C5_ImpliedSingle ==
    apc = "done" =>
        \A cat \in Categories :
            (Asserts(html_text, cat) /\ \A k \in 1..Len(html_text) : html_text[k] \notin Times)
            => accolades[cat] = 1

\* ---------------------------------------------------------------------------
\* _extract_table_surgically and the comment unmasking.
\* A document is a sequence of tokens; a token is one ordinary character, one
\* of the markers the function looks for, or a run of ordinary characters.
\* Offsets are character offsets as Python counts them, from 0.

TableOpen == "<table"
TableOpenUpper == "<TABLE"
TableClose == "</table>"
TableCloseUpper == "</TABLE>"
Filler == "[50000 ordinary characters]"
BackLimit == 50000
ForwardLimit == 100000

DqAnchor(id) == IF id = "per" THEN "data-stat=\"per\"" ELSE "data-stat=\"pts_per_g\""
SqAnchor(id) == IF id = "per" THEN "data-stat='per'" ELSE "data-stat='pts_per_g'"

\* len() of a token.
TokLen(t) ==
    CASE t \in {TableOpen, TableOpenUpper} -> 6
      [] t \in {TableClose, TableCloseUpper} -> 8
      [] t = "<!--" -> 4
      [] t = "-->" -> 3
      [] t \in {DqAnchor("per"), SqAnchor("per")} -> 15
      [] t \in {DqAnchor("pts_per_g"), SqAnchor("pts_per_g")} -> 21
      [] t = Filler -> BackLimit
      [] OTHER -> 1

\* str.lower() of a token.
Lower(t) ==
    IF t = TableOpenUpper THEN TableOpen ELSE IF t = TableCloseUpper THEN TableClose ELSE t

\* The offset at which token i of the document begins; Off(html, Len + 1) is len(html).
RECURSIVE Off(_, _)
Off(html, i) == IF i <= 1 THEN 0 ELSE Off(html, i - 1) + TokLen(html[i - 1])

\* The token that begins at offset p.
IndexAt(html, p) == CHOOSE i \in 1..(Len(html) + 1) : Off(html, i) = p

\* str.find(tok): the offset of the first occurrence, -1 when there is none.
Find(html, tok) ==
    IF \E i \in 1..Len(html) : html[i] = tok
    THEN Off(html, CHOOSE i \in 1..Len(html) : html[i] = tok /\ \A j \in 1..(i - 1) : html[j] # tok)
    ELSE -1

Max(a, b) == IF a >= b THEN a ELSE b
Min(a, b) == IF a <= b THEN a ELSE b

\* Variant: the walk stops on the first '<table' of the document.
WalkBackFarthest(html, k, limit) ==
    IF \E j \in 1..k : Off(html, j) > limit /\ Lower(html[j]) = TableOpen
    THEN Off(html, CHOOSE j \in 1..k : /\ Off(html, j) > limit /\ Lower(html[j]) = TableOpen
                                       /\ \A i \in 1..(j - 1) :
                                              ~(Off(html, i) > limit /\ Lower(html[i]) = TableOpen))
    ELSE limit

\* The backward loop, standing at the token that begins at Off(html, k): it
\* tests every offset above the limit and stops on the limit without testing it.
RECURSIVE WalkBack(_, _, _)
WalkBack(html, k, limit) ==
    IF Off(html, k) <= limit THEN limit
    ELSE IF Lower(html[k]) = TableOpen THEN Off(html, k)
    ELSE WalkBack(html, k - 1, limit)

\* The forward loop: it tests every offset below the limit, and on a match
\* steps over the closing tag.
RECURSIVE WalkForward(_, _, _)
WalkForward(html, k, limit) ==
    IF k > Len(html) \/ Off(html, k) >= limit THEN limit
    ELSE IF Lower(html[k]) = TableClose THEN Off(html, k) + TokLen(TableClose)
    ELSE WalkForward(html, k + 1, limit)

\* str.replace(old, ''), for the spellings of one delimiter: as one token, or
\* character by character. Leftmost occurrences, not overlapping, one pass.
CommentOpen == {<<"<!--">>, <<"<", "!", "-", "-">>}
CommentClose == {<<"-->">>, <<"-", "-", ">">>}
OccursAt(txt, i, olds) ==
    {o \in olds : i + Len(o) - 1 <= Len(txt) /\ SubSeq(txt, i, i + Len(o) - 1) = o}
RECURSIVE RemoveFrom(_, _, _)
RemoveFrom(txt, i, olds) ==
    IF i > Len(txt) THEN <<>>
    ELSE IF OccursAt(txt, i, olds) # {}
    THEN RemoveFrom(txt, i + Len(CHOOSE o \in OccursAt(txt, i, olds) : TRUE), olds)
    ELSE <<txt[i]>> \o RemoveFrom(txt, i + 1, olds)
Remove(txt, olds) == RemoveFrom(txt, 1, olds)

\* table_html.replace('<!--', '').replace('-->', '')
unmask(txt) == Remove(Remove(txt, CommentOpen), CommentClose)

\* The documents of a call: every document of up to MaxDoc tokens over the two
\* markers, the anchor in both quotings and an ordinary character; and every
\* document that puts, between two ordinary characters, up to MaxDoc - 1 tokens
\* over the markers in both letter cases, the anchor, a comment opener and a
\* long run of ordinary characters.
LocatorDocs ==
    SeqsUpTo({TableOpen, TableClose, DqAnchor("per"), SqAnchor("per"), "."}, MaxDoc)
    \cup {<<".">> \o c \o <<".">> :
            c \in SeqsUpTo({TableOpen, TableOpenUpper, TableClose, TableCloseUpper,
                            DqAnchor("per"), "<!--", Filler}, MaxDoc - 1)}

InitLocator ==
    /\ html_text \in LocatorDocs
    /\ data_stat_identifier = "per"
    /\ search_pattern = "" /\ start_pos = -1 /\ table_start = -1 /\ table_end = -1
    /\ table_html = <<>>
    /\ lpc = "find"
    /\ IdleCount /\ IdleAccolades /\ IdleUnmask /\ IdleRows
    /\ IdleCells
    /\ IdleAssembly
    /\ IdleScrape
    /\ IdleRequest
    /\ IdleRate
    /\ IdleThreads
    /\ IdleBio
    /\ IdleMain
    /\ IdleStore

\* Variant: the single-quoted form is searched first.
LocFindSingleFirst ==
    /\ lpc = "find"
    /\ LET sq == Find(html_text, SqAnchor(data_stat_identifier))
           dq == Find(html_text, DqAnchor(data_stat_identifier))
       IN  /\ search_pattern' = IF sq = -1 THEN DqAnchor(data_stat_identifier)
                                ELSE SqAnchor(data_stat_identifier)
           /\ start_pos' = IF sq = -1 THEN dq ELSE sq
    /\ lpc' = IF start_pos' = -1 THEN "done" ELSE "back"
    /\ UNCHANGED <<cvars, html_text, avars, data_stat_identifier, table_start, table_end,
                   table_html, upc, rvars, xvars, yvars, svars, mvars, tvars, pvars, bvars, dvars, fvars>>

\* Lines 136-147: find the anchor, double-quoted and then single-quoted;
\* return None when neither occurs.
LocFind ==
    /\ lpc = "find"
    /\ LET dq == Find(html_text, DqAnchor(data_stat_identifier))
           sq == Find(html_text, SqAnchor(data_stat_identifier))
       IN  /\ search_pattern' = IF dq = -1 THEN SqAnchor(data_stat_identifier)
                                ELSE DqAnchor(data_stat_identifier)
           /\ start_pos' = IF dq = -1 THEN sq ELSE dq
    /\ lpc' = IF start_pos' = -1 THEN "done" ELSE "back"
    /\ UNCHANGED <<cvars, html_text, avars, data_stat_identifier, table_start, table_end,
                   table_html, upc, rvars, xvars, yvars, svars, mvars, tvars, pvars, bvars, dvars, fvars>>

\* Lines 151-162: walk backwards to '<table'; return None when the walk ends
\* on the limit.
LocBack ==
    /\ lpc = "back"
    /\ LET search_limit == Max(0, start_pos - BackLimit)
       IN  /\ table_start' = WalkBack(html_text, IndexAt(html_text, start_pos), search_limit)
           /\ lpc' = IF table_start' = search_limit THEN "done" ELSE "forward"
    /\ UNCHANGED <<cvars, html_text, avars, data_stat_identifier, search_pattern, start_pos,
                   table_end, table_html, upc, rvars, xvars, yvars, svars, mvars, tvars, pvars, bvars, dvars, fvars>>

\* Lines 166-190: walk forwards to '</table>'; return None when the walk ends on
\* or past the limit, else the slice with the comment delimiters removed.
LocForward ==
    /\ lpc = "forward"
    /\ LET search_limit == Min(Off(html_text, Len(html_text) + 1), start_pos + ForwardLimit)
       IN  /\ table_end' = WalkForward(html_text, IndexAt(html_text, start_pos), search_limit)
           /\ table_html' =
                  IF table_end' >= search_limit THEN <<>>
                  ELSE unmask(SubSeq(html_text, IndexAt(html_text, table_start),
                                     IndexAt(html_text, table_end') - 1))
    /\ lpc' = "done"
    /\ UNCHANGED <<cvars, html_text, avars, data_stat_identifier, search_pattern, start_pos,
                   table_start, upc, rvars, xvars, yvars, svars, mvars, tvars, pvars, bvars, dvars, fvars>>

NextLocator == LocFind \/ LocBack \/ LocForward

SpecLocator == InitLocator /\ [][NextLocator]_vars

\* The token of the anchor the function looks for: the first double-quoted
\* one, else the first single-quoted one; 0 when the document has neither.
AnchorIndex(html, id) ==
    IF Find(html, DqAnchor(id)) # -1 THEN IndexAt(html, Find(html, DqAnchor(id)))
    ELSE IF Find(html, SqAnchor(id)) # -1 THEN IndexAt(html, Find(html, SqAnchor(id)))
    ELSE 0

\* The tokens before the anchor where '<table' begins, and those from the
\* anchor on where '</table>' begins, in any letter case.
OpensBefore(html, a) == {k \in 1..(a - 1) : Lower(html[k]) = TableOpen}
ClosesFrom(html, a) == {k \in a..Len(html) : Lower(html[k]) = TableClose}
NoDelimiters(txt) == SelectSeq(txt, LAMBDA t : t \notin {"<!--", "-->"})

\* C6: when the anchor occurs, a '<table' begins before it within the backward
\* bound (down to offset 0) and a '</table>' begins at or after it and ends
\* within the forward bound (up to the end of the document), a region is returned.
C6_LocatorComplete ==
    lpc = "done" =>
        \A a \in {AnchorIndex(html_text, data_stat_identifier)} :
            ( /\ a > 0
              /\ \E k \in OpensBefore(html_text, a) :
                     Off(html_text, a) - Off(html_text, k) <= BackLimit
              /\ \E c \in ClosesFrom(html_text, a) :
                     Off(html_text, c + 1) - Off(html_text, a) <= ForwardLimit )
            => table_html # <<>>

\* C7, as stated: a returned region is html_text[s:e] without the comment
\* delimiters, s the greatest offset below the anchor where '<table' begins in
\* any letter case, e the end of the first '</table>', spelled so, from the anchor on.
C7_AsStated ==
    (lpc = "done" /\ table_html # <<>>) =>
        \A a \in {AnchorIndex(html_text, data_stat_identifier)} :
            /\ a > 0 /\ OpensBefore(html_text, a) # {}
            /\ \E e \in a..Len(html_text) :
                   /\ html_text[e] = TableClose
                   /\ \A j \in a..(e - 1) : html_text[j] # TableClose
                   /\ \A st \in {CHOOSE k \in OpensBefore(html_text, a) :
                                     \A j \in OpensBefore(html_text, a) : j <= k} :
                          table_html = NoDelimiters(SubSeq(html_text, st, e))

\* C7: a returned region is html_text[s:e] without the comment delimiters, s
\* the greatest offset below the anchor where '<table' begins and e the end of
\* the first '</table>' from the anchor on, both in any letter case; it starts
\* with the open marker, ends with the close marker and contains the anchor.
C7_LocatorSound ==
    (lpc = "done" /\ table_html # <<>>) =>
        \A a \in {AnchorIndex(html_text, data_stat_identifier)} :
            /\ a > 0 /\ OpensBefore(html_text, a) # {} /\ ClosesFrom(html_text, a) # {}
            /\ \A st \in {CHOOSE k \in OpensBefore(html_text, a) :
                              \A j \in OpensBefore(html_text, a) : j <= k} :
               \A e \in {CHOOSE k \in ClosesFrom(html_text, a) :
                             \A j \in ClosesFrom(html_text, a) : k <= j} :
                   /\ table_html = NoDelimiters(SubSeq(html_text, st, e))
                   /\ table_start = Off(html_text, st) /\ table_end = Off(html_text, e + 1)
            /\ Lower(table_html[1]) = TableOpen
            /\ Lower(table_html[Len(table_html)]) = TableClose
            /\ \E i \in 1..Len(table_html) : table_html[i] = html_text[a]

\* A region returned without the comment opener that its slice held.
C7_Witness ==
    /\ lpc = "done" /\ table_html # <<>>
    /\ Len(table_html) < IndexAt(html_text, table_end) - IndexAt(html_text, table_start)
    /\ \E k \in 1..Len(html_text) :
           /\ html_text[k] = "<!--"
           /\ table_start < Off(html_text, k) /\ Off(html_text, k) < table_end

\* C8: a document with the anchor in neither quoting gets None, with no
\* backward or forward walk; the single-quoted form is searched only when the
\* double-quoted form does not occur.
C8_AnchorAbsent ==
    /\ ( /\ lpc = "done"
         /\ Find(html_text, DqAnchor(data_stat_identifier)) = -1
         /\ Find(html_text, SqAnchor(data_stat_identifier)) = -1 )
       => (table_html = <<>> /\ table_start = -1 /\ table_end = -1)
    /\ lpc \in {"back", "forward"} => start_pos # -1
    /\ search_pattern = SqAnchor(data_stat_identifier)
       => Find(html_text, DqAnchor(data_stat_identifier)) = -1

\* A document with both markers and no anchor, after the call.
C8_Witness ==
    /\ lpc = "done"
    /\ AnchorIndex(html_text, data_stat_identifier) = 0
    /\ search_pattern = SqAnchor(data_stat_identifier)
    /\ \E i, j \in 1..Len(html_text) : i < j /\ html_text[i] = TableOpen /\ html_text[j] = TableClose
    /\ table_html = <<>>

\* ---------------------------------------------------------------------------
\* The comment unmasking on its own, on texts written character by character.

UnmaskTexts == SeqsUpTo({"<", "!", "-", ">", "a"}, MaxLen)

InitUnmask ==
    /\ table_html \in UnmaskTexts
    /\ upc = "call"
    /\ html_text = <<>>
    /\ IdleCount /\ IdleAccolades /\ IdleLocator /\ IdleRows
    /\ IdleCells
    /\ IdleAssembly
    /\ IdleScrape
    /\ IdleRequest
    /\ IdleRate
    /\ IdleThreads
    /\ IdleBio
    /\ IdleMain
    /\ IdleStore

\* Line 187.
Unmask ==
    /\ upc = "call"
    /\ table_html' = unmask(table_html)
    /\ upc' = "done"
    /\ UNCHANGED <<cvars, html_text, avars, lvars, rvars, xvars, yvars, svars, mvars, tvars, pvars, bvars, dvars, fvars>>

NextUnmask == Unmask

SpecUnmask == InitUnmask /\ [][NextUnmask]_vars

\* A delimiter, written character by character, occurs in the text.
HasDelimiter(txt) ==
    \E i \in 1..Len(txt) : OccursAt(txt, i, CommentOpen \cup CommentClose) # {}

\* C9: the unmasking is idempotent: applied to its own output it returns the
\* output unchanged, that is, the output holds no comment delimiter.
C9_UnmaskIdempotent ==
    upc = "done" => (unmask(table_html) = table_html /\ ~HasDelimiter(table_html))

\* ---------------------------------------------------------------------------
\* The row selection of _parse_career_stats and _parse_advanced_stats.
\* A parsed table is the sequence of its rows in document order. A row records
\* the grouping it stands in (sec), its text (txt, the get_text() of the row),
\* whether it has a td cell, and its class attribute. Neighbouring rows of one
\* grouping kind stand in one grouping element.

Row(sec, txt, td, cls) == [sec |-> sec, txt |-> txt, td |-> td, cls |-> cls]

RowShapes ==
    { [txt |-> <<"Career">>, td |-> TRUE, cls |-> ""],
      [txt |-> <<"\n", "1", "5", " ", "Yrs", "\n">>, td |-> TRUE, cls |-> ""],
      [txt |-> <<"Career">>, td |-> FALSE, cls |-> ""],
      [txt |-> <<"1", "5", "Yrs">>, td |-> TRUE, cls |-> ""],
      [txt |-> <<"2003-04">>, td |-> TRUE, cls |-> ""],
      [txt |-> <<"2003-04">>, td |-> TRUE, cls |-> "Career"],
      [txt |-> <<"2003-04">>, td |-> FALSE, cls |-> "Career"] }

Rows == {Row(sec, r.txt, r.td, r.cls) : sec \in {"tfoot", "tbody"}, r \in RowShapes}

Tables == SeqsUpTo(Rows, MaxRows)

\* str.strip()
RECURSIVE Strip(_)
Strip(txt) ==
    IF txt = <<>> THEN txt
    ELSE IF txt[1] \in Space THEN Strip(Tail(txt))
    ELSE IF txt[Len(txt)] \in Space THEN Strip(SubSeq(txt, 1, Len(txt) - 1))
    ELSE txt

\* ^\d+\s+Yrs
YrsPattern == <<Rep(Digit, 1, -1), Rep(Space, 1, -1), Lit("Yrs")>>

\* 'Career' in txt or re.search(r'^\d+\s+Yrs', txt), on the stripped row text.
is_career_row(row) ==
    \A txt \in {Strip(row.txt)} :
        \/ \E i \in 1..Len(txt) : txt[i] = "Career"
        \/ MatchAt(YrsPattern, txt, 1).ok

\* lambda x: x and 'career' in x.lower()
HasCareerClass(row) == row.cls \in {"career", "Career"}

\* table.find(kind).find_all('tr'): the rows of the first grouping of the kind.
GroupRows(tbl, kind) ==
    {i \in 1..Len(tbl) :
        \E f \in 1..i : /\ \A j \in 1..(f - 1) : tbl[j].sec # kind
                        /\ \A j \in f..i : tbl[j].sec = kind}

\* The loop over rows with its break: the first of the rows that passes the
\* test (ok: the rows of the table that pass), 0 for none.
FirstRow(rows, ok) ==
    IF rows \cap ok # {}
    THEN CHOOSE i \in rows \cap ok : \A j \in rows \cap ok : i <= j
    ELSE 0

\* Variant: a third strategy, by class, after the two of the per-game table.
per_game_career_row_with_class(tbl) ==
    LET ok == {i \in 1..Len(tbl) : is_career_row(tbl[i])}
        in_tfoot == FirstRow(GroupRows(tbl, "tfoot"), ok)
        in_tbody == FirstRow(GroupRows(tbl, "tbody"), ok)
    IN  IF in_tfoot # 0 THEN in_tfoot
        ELSE IF in_tbody # 0 THEN in_tbody
        ELSE FirstRow(1..Len(tbl), {i \in 1..Len(tbl) : HasCareerClass(tbl[i])})

\* _parse_career_stats, lines 233-253.
per_game_career_row(tbl) ==
    LET ok == {i \in 1..Len(tbl) : is_career_row(tbl[i])}
        in_tfoot == FirstRow(GroupRows(tbl, "tfoot"), ok)
    IN  IF in_tfoot # 0 THEN in_tfoot
        ELSE FirstRow(GroupRows(tbl, "tbody"), ok)

\* Variant: the body grouping is searched before the footer grouping.
advanced_career_row_body_first(tbl) ==
    LET ok == {i \in 1..Len(tbl) : is_career_row(tbl[i]) /\ tbl[i].td}
        in_tbody == FirstRow(GroupRows(tbl, "tbody"), ok)
    IN  IF in_tbody # 0 THEN in_tbody
        ELSE FirstRow(GroupRows(tbl, "tfoot"), ok)

\* _parse_advanced_stats, lines 348-381.
advanced_career_row(tbl) ==
    LET ok == {i \in 1..Len(tbl) : is_career_row(tbl[i]) /\ tbl[i].td}
        in_tfoot == FirstRow(GroupRows(tbl, "tfoot"), ok)
        in_tbody == FirstRow(GroupRows(tbl, "tbody"), ok)
    IN  IF in_tfoot # 0 THEN in_tfoot
        ELSE IF in_tbody # 0 THEN in_tbody
        ELSE FirstRow(1..Len(tbl), {i \in 1..Len(tbl) : HasCareerClass(tbl[i])})

InitRows ==
    /\ table \in Tables
    /\ career_row = 0
    /\ rpc = "call"
    /\ html_text = <<>> /\ table_html = <<>>
    /\ IdleCount /\ IdleAccolades /\ IdleLocator /\ IdleUnmask
    /\ IdleCells
    /\ IdleAssembly
    /\ IdleScrape
    /\ IdleRequest
    /\ IdleRate
    /\ IdleThreads
    /\ IdleBio
    /\ IdleMain
    /\ IdleStore

SelectPerGameRow ==
    /\ rpc = "call"
    /\ career_row' = per_game_career_row(table)
    /\ rpc' = "per_game"
    /\ UNCHANGED <<cvars, html_text, avars, lvars, table_html, upc, table, xvars, yvars, svars, mvars, tvars, pvars, bvars, dvars, fvars>>

SelectAdvancedRow ==
    /\ rpc = "call"
    /\ career_row' = advanced_career_row(table)
    /\ rpc' = "advanced"
    /\ UNCHANGED <<cvars, html_text, avars, lvars, table_html, upc, table, xvars, yvars, svars, mvars, tvars, pvars, bvars, dvars, fvars>>

NextRows == SelectPerGameRow \/ SelectAdvancedRow

SpecRows == InitRows /\ [][NextRows]_vars

\* The rows of a footer grouping, of any, and of the first, that have the
\* aggregate shape.
FooterAggregates(tbl) == {i \in 1..Len(tbl) : tbl[i].sec = "tfoot" /\ is_career_row(tbl[i])}
FirstFooterAggregates(tbl) == {i \in GroupRows(tbl, "tfoot") : is_career_row(tbl[i])}
Least(S) == CHOOSE i \in S : \A j \in S : i <= j

\* C10, as stated: when a footer grouping holds a row of the aggregate shape,
\* the selected row is the first such footer row, in both tables.
C10_AsStated ==
    (rpc \in {"per_game", "advanced"} /\ FooterAggregates(table) # {})
        => career_row = Least(FooterAggregates(table))

\* C10: when the first footer grouping holds a row of the aggregate shape (for
\* the advanced table: one with a td cell), the selected row is the first such
\* row of that grouping, whatever the body grouping holds and wherever it stands.
C10_FooterPrecedence ==
    /\ (rpc = "per_game" /\ FirstFooterAggregates(table) # {})
           => career_row = Least(FirstFooterAggregates(table))
    /\ (rpc = "advanced" /\ {i \in FirstFooterAggregates(table) : table[i].td} # {})
           => career_row = Least({i \in FirstFooterAggregates(table) : table[i].td})

\* The advanced table with a body row of the shape ahead of the footer, whose
\* first row of the shape has no td cell: the second footer row is selected.
C10_Witness ==
    /\ rpc = "advanced"
    /\ \E b, h \in 1..Len(table) :
           /\ b < h /\ h < career_row
           /\ table[b].sec = "tbody" /\ is_career_row(table[b]) /\ table[b].td
           /\ table[h].sec = "tfoot" /\ is_career_row(table[h]) /\ ~table[h].td
    /\ table[career_row].sec = "tfoot"

\* C11: the selected row, of either table and by any strategy, has a td cell.
C11_SelectedHasTd ==
    (rpc \in {"per_game", "advanced"} /\ career_row # 0) => table[career_row].td

\* The rows a strategy accepts: of the first grouping of a kind, those of the
\* aggregate shape (with a td cell where the table asks for one); of the whole
\* table, those with a class holding 'career'.
ShapeRows(tbl, kind, needs_td) ==
    {i \in GroupRows(tbl, kind) : is_career_row(tbl[i]) /\ (needs_td => tbl[i].td)}
ClassRows(tbl) == {i \in 1..Len(tbl) : HasCareerClass(tbl[i])}
FirstOrNone(S) == IF S = {} THEN 0 ELSE Least(S)

\* The outcome of the three strategies tried in order.
ThreeStrategies(tbl, needs_td) ==
    IF ShapeRows(tbl, "tfoot", needs_td) # {} THEN Least(ShapeRows(tbl, "tfoot", needs_td))
    ELSE IF ShapeRows(tbl, "tbody", needs_td) # {} THEN Least(ShapeRows(tbl, "tbody", needs_td))
    ELSE FirstOrNone(ClassRows(tbl))

\* C12, as stated: for both tables the selected row is that of the first of
\* three strategies that succeeds (footer shape, body shape, class), and none
\* is selected only when all three fail.
C12_AsStated ==
    /\ rpc = "per_game" => career_row = ThreeStrategies(table, FALSE)
    /\ rpc = "advanced" => career_row = ThreeStrategies(table, TRUE)

\* C12: the advanced table tries footer shape, body shape (both on rows with a
\* td cell), then class, and takes the first that succeeds; the per-game table
\* tries footer shape, then body shape, and has no class strategy. None is
\* selected only when all the strategies of the table fail.
C12_StrategyOrder ==
    /\ rpc = "advanced" => career_row = ThreeStrategies(table, TRUE)
    /\ rpc = "per_game" =>
           career_row = IF ShapeRows(table, "tfoot", FALSE) # {}
                        THEN Least(ShapeRows(table, "tfoot", FALSE))
                        ELSE FirstOrNone(ShapeRows(table, "tbody", FALSE))

\* The per-game table finds no row although a row has a class holding 'career'.
C12_Witness ==
    /\ rpc = "per_game"
    /\ career_row = 0
    /\ ClassRows(table) # {}
    /\ advanced_career_row(table) \in ClassRows(table)

\* ---------------------------------------------------------------------------
\* The field extraction from the selected row (_parse_career_stats lines
\* 262-316, _parse_advanced_stats lines 390-411). The row is the sequence of
\* its children: th and td cells with their data-stat key and text, and the
\* text nodes between them. A field without a value (None, or never set) is <<>>.

Item(tag, key, txt) == [tag |-> tag, key |-> key, txt |-> txt]

Items ==
    { Item("th", "season", <<"1", "5", " ", "Yrs">>),
      Item("th", "season", <<"Career">>),
      Item("td", "g", <<"9">>),
      Item("td", "g", <<" ">>),
      Item("th", "g", <<"8">>),
      Item("td", "pts_per_g", <<" ", "7">>),
      Item("td", "per", <<"2">>),
      Item("text", "", <<"\n">>) }

PerGameFields ==
    {"minutes_per_game", "field_goal_pct", "three_point_pct", "free_throw_pct",
     "points_per_game", "rebounds_per_game", "assists_per_game", "steals_per_game",
     "blocks_per_game"}
AdvancedFields ==
    {"player_efficiency_rating", "true_shooting_pct", "usage_rate", "box_plus_minus",
     "win_shares", "win_shares_per_48", "value_over_replacement"}

\* The data-stat key a field is read from.
StatKey(f) ==
    CASE f = "games_played" -> "g"
      [] f = "minutes_per_game" -> "mp_per_g"
      [] f = "field_goal_pct" -> "fg_pct"
      [] f = "three_point_pct" -> "fg3_pct"
      [] f = "free_throw_pct" -> "ft_pct"
      [] f = "points_per_game" -> "pts_per_g"
      [] f = "rebounds_per_game" -> "trb_per_g"
      [] f = "assists_per_game" -> "ast_per_g"
      [] f = "steals_per_game" -> "stl_per_g"
      [] f = "blocks_per_game" -> "blk_per_g"
      [] f = "player_efficiency_rating" -> "per"
      [] f = "true_shooting_pct" -> "ts_pct"
      [] f = "usage_rate" -> "usg_pct"
      [] f = "box_plus_minus" -> "bpm"
      [] f = "win_shares" -> "ws"
      [] f = "win_shares_per_48" -> "ws_per_48"
      [] f = "value_over_replacement" -> "vorp"

\* career_row.get_text()
RECURSIVE RowText(_)
RowText(items) == IF items = <<>> THEN <<>> ELSE Head(items).txt \o RowText(Tail(items))

\* career_row.find(tags, {'data-stat': key}): the first such cell, 0 for None.
find_cell(items, tags, key) ==
    LET hits == {i \in 1..Len(items) : items[i].tag \in tags /\ items[i].key = key}
    IN  IF hits = {} THEN 0 ELSE CHOOSE i \in hits : \A j \in hits : i <= j

\* _parse_table_cell
parse_table_cell(items, i) == IF i = 0 THEN <<>> ELSE Strip(items[i].txt)

\* (\d+)\s+Yrs  and  ^\d+\s+Yrs\s+(\d+)
YearsPattern == <<Cap(Rep(Digit, 1, -1)), Rep(Space, 1, -1), Lit("Yrs")>>
GamesPattern ==
    <<Rep(Digit, 1, -1), Rep(Space, 1, -1), Lit("Yrs"), Rep(Space, 1, -1), Cap(Rep(Digit, 1, -1))>>

\* Lines 262-269.
years_active_of(items) ==
    LET th == {i \in 1..Len(items) : items[i].tag = "th"}
    IN  IF th = {} THEN <<>>
        ELSE \* first_cell.get_text().strip()
             LET years_text == Strip(items[CHOOSE i \in th : \A j \in th : i <= j].txt)
                 years_match == Search(YearsPattern, years_text)
             IN  IF years_match.ok THEN years_match.cap
                 ELSE IF \E k \in 1..Len(years_text) : years_text[k] = "Career"
                 THEN <<"Career">>
                 ELSE <<>>

\* Lines 272-280.
games_played_of(items) ==
    LET games_match == MatchAt(GamesPattern, Strip(RowText(items)), 1)
    IN  IF games_match.ok THEN games_match.cap
        ELSE parse_table_cell(items, find_cell(items, {"td", "th"}, "g"))

\* The stats of _parse_career_stats once the row is selected.
career_cell_stats(items) ==
    [f \in PerGameFields \cup {"years_active", "games_played"} |->
        IF f = "years_active" THEN years_active_of(items)
        ELSE IF f = "games_played" THEN games_played_of(items)
        ELSE parse_table_cell(items, find_cell(items, {"td"}, StatKey(f)))]

\* The stats of _parse_advanced_stats once the row is selected.
advanced_cell_stats(items) ==
    [f \in AdvancedFields |-> parse_table_cell(items, find_cell(items, {"td"}, StatKey(f)))]

InitCells ==
    /\ row_cells \in SeqsUpTo(Items, MaxCells)
    /\ stats = <<>>
    /\ xpc = "call"
    /\ html_text = <<>> /\ table_html = <<>>
    /\ IdleCount /\ IdleAccolades /\ IdleLocator /\ IdleUnmask /\ IdleRows
    /\ IdleAssembly
    /\ IdleScrape
    /\ IdleRequest
    /\ IdleRate
    /\ IdleThreads
    /\ IdleBio
    /\ IdleMain
    /\ IdleStore

ExtractCareerCells ==
    /\ xpc = "call"
    /\ stats' = career_cell_stats(row_cells)
    /\ xpc' = "per_game"
    /\ UNCHANGED <<cvars, html_text, avars, lvars, table_html, upc, rvars, row_cells, yvars, svars, mvars, tvars, pvars, bvars, dvars, fvars>>

ExtractAdvancedCells ==
    /\ xpc = "call"
    /\ stats' = advanced_cell_stats(row_cells)
    /\ xpc' = "advanced"
    /\ UNCHANGED <<cvars, html_text, avars, lvars, table_html, upc, rvars, row_cells, yvars, svars, mvars, tvars, pvars, bvars, dvars, fvars>>

NextCells == ExtractCareerCells \/ ExtractAdvancedCells

SpecCells == InitCells /\ [][NextCells]_vars

\* The cell-based fields of the table whose row was read.
CellFields == IF xpc = "per_game" THEN PerGameFields \cup {"games_played"} ELSE AdvancedFields

\* The cells of the row tagged with a key.
Tagged(items, key) == {i \in 1..Len(items) : items[i].tag \in {"td", "th"} /\ items[i].key = key}

\* C13: every cell-based field, games_played included, is the
\* trimmed text of a cell tagged with the field's own key, and is absent when
\* no such cell exists or its trimmed text is empty.
C13_CellOfOwnKey ==
    xpc \in {"per_game", "advanced"} =>
        \A f \in CellFields :
            /\ stats[f] # <<>> =>
                   \E i \in Tagged(row_cells, StatKey(f)) : stats[f] = Strip(row_cells[i].txt)
            /\ (\A i \in Tagged(row_cells, StatKey(f)) : Strip(row_cells[i].txt) = <<>>)
                   => stats[f] = <<>>

\* ---------------------------------------------------------------------------
\* PlayerStats and the typed assembly of scrape_player (lines 616-649).
\* A value is None, an int, a float (n / 10^e, without trailing zeros) or a str
\* (a sequence of tokens).

NoneV == [t |-> "none", n |-> 0, e |-> 0, s |-> <<>>]
IntV(n) == [t |-> "int", n |-> n, e |-> 0, s |-> <<>>]
StrV(s) == [t |-> "str", n |-> 0, e |-> 0, s |-> s]
RECURSIVE FloatV(_, _)
FloatV(n, e) ==
    IF e > 0 /\ n % 10 = 0 THEN FloatV(n \div 10, e - 1)
    ELSE [t |-> "float", n |-> n, e |-> e, s |-> <<>>]

IdentityFields == {"name", "player_id", "url"}
IntFields ==
    {"games_played", "championships", "mvp_awards", "finals_mvp_awards", "scoring_titles",
     "all_star_selections", "all_nba_selections", "all_defensive_selections", "dpoy_awards"}
FloatFields == PerGameFields \cup AdvancedFields
TextFields == {"position", "years_active"}
Fields == IdentityFields \cup IntFields \cup FloatFields \cup TextFields

\* The outcome of a conversion: a value, or ValueError / TypeError.
Raised == [t |-> "error", n |-> 0, e |-> 0, s |-> <<>>]

\* The text of a number without blanks around it and without its sign.
Unsigned(txt) ==
    LET core == Strip(txt)
    IN  IF core # <<>> /\ core[1] \in {"-", "+"} THEN Tail(core) ELSE core
Sign(txt) == IF Strip(txt) # <<>> /\ Strip(txt)[1] = "-" THEN -1 ELSE 1

\* int(value)
py_int(v) ==
    IF v.t = "int" THEN v
    ELSE IF v.t # "str" THEN Raised
    ELSE LET digits == Unsigned(v.s)
         IN  IF digits # <<>> /\ \A i \in 1..Len(digits) : digits[i] \in Digit
             THEN IntV(Sign(v.s) * ToInt(digits))
             ELSE Raised

\* float(value)
py_float(v) ==
    IF v.t = "int" THEN FloatV(v.n, 0)
    ELSE IF v.t # "str" THEN Raised
    ELSE LET num == Unsigned(v.s)
             dots == {i \in 1..Len(num) : num[i] = "."}
             digits == SelectSeq(num, LAMBDA c : c \in Digit)
         IN  IF /\ \A i \in 1..Len(num) : num[i] \in Digit \cup {"."}
                /\ Cardinality(dots) <= 1
                /\ digits # <<>>
             THEN FloatV(Sign(v.s) * ToInt(digits),
                         IF dots = {} THEN 0 ELSE Len(num) - (CHOOSE i \in dots : TRUE))
             ELSE Raised

\* The conversion of lines 628-642 for one key.
coerce(key, value) ==
    IF key \in IntFields THEN py_int(value)
    ELSE IF key \in FloatFields THEN py_float(value)
    ELSE value

\* PlayerStats(name=..., player_id=..., url=...)
NewPlayer(name, player_id, url) ==
    [f \in Fields |->
        IF f = "name" THEN StrV(name) ELSE IF f = "player_id" THEN StrV(player_id)
        ELSE IF f = "url" THEN StrV(url) ELSE NoneV]

\* Variant: the first conversion that fails ends the loop.
RECURSIVE assemble_abort(_, _, _)
assemble_abort(p, data, keys) ==
    IF keys = <<>> THEN p
    ELSE LET key == Head(keys)
         IN  IF key \notin Fields \/ data[key] = NoneV
             THEN assemble_abort(p, data, Tail(keys))
             ELSE IF coerce(key, data[key]) = Raised THEN p
             ELSE assemble_abort([p EXCEPT ![key] = coerce(key, data[key])], data, Tail(keys))

\* The loop of lines 624-645 over all_data.items(), keys in their order.
RECURSIVE assemble(_, _, _)
assemble(p, data, keys) ==
    IF keys = <<>> THEN p
    ELSE LET key == Head(keys)
         IN  IF key \notin Fields \/ data[key] = NoneV
             THEN assemble(p, data, Tail(keys))
             ELSE IF coerce(key, data[key]) = Raised
             THEN assemble(p, data, Tail(keys))
             ELSE assemble([p EXCEPT ![key] = coerce(key, data[key])], data, Tail(keys))

\* The merged field maps of a call: over four keys of the three declared
\* types, each raw value None, text that converts, or text that does not.
AssemblyKeys == {"games_played", "points_per_game", "position", "championships"}
RawValues(key) ==
    CASE key = "games_played" ->
             {NoneV, StrV(<<"9">>), StrV(<<"1", ",", "0">>), StrV(<<"2", ".", "5">>)}
      [] key = "points_per_game" ->
             {NoneV, StrV(<<"2", ".", "5">>), StrV(<<"-">>), StrV(<<"-", "1", ".", "5", "0">>),
              StrV(<<" ", "9">>)}
      [] key = "position" -> {NoneV, StrV(<<"Center">>)}
      [] key = "championships" -> {IntV(0), IntV(6)}
MergedMaps == {d \in [AssemblyKeys -> UNION {RawValues(k) : k \in AssemblyKeys}] :
                  \A k \in AssemblyKeys : d[k] \in RawValues(k)}
KeyOrders ==
    {o \in [1..Cardinality(AssemblyKeys) -> AssemblyKeys] :
        \A i, j \in DOMAIN o : o[i] = o[j] => i = j}

InitAssembly ==
    /\ all_data \in MergedMaps
    /\ order \in KeyOrders
    /\ player = NewPlayer(<<"LeBron James">>, <<"jamesle01">>, <<"url">>)
    /\ ypc = "merged"
    /\ html_text = <<>> /\ table_html = <<>>
    /\ IdleCount /\ IdleAccolades /\ IdleLocator /\ IdleUnmask /\ IdleRows /\ IdleCells
    /\ IdleScrape
    /\ IdleRequest
    /\ IdleRate
    /\ IdleThreads
    /\ IdleBio
    /\ IdleMain
    /\ IdleStore

\* Lines 624-645.
Assemble ==
    /\ ypc = "merged"
    /\ player' = assemble(player, all_data, order)
    /\ ypc' = "assembled"
    /\ UNCHANGED <<cvars, html_text, avars, lvars, table_html, upc, rvars, xvars, all_data, order, svars, mvars, tvars, pvars, bvars, dvars, fvars>>

NextAssembly == Assemble

SpecAssembly == InitAssembly /\ [][NextAssembly]_vars

\* C14: a field whose raw text cannot be converted to its declared type is
\* absent in the record, and every other field whose raw value converts is
\* present with its typed value, in whatever order the fields are converted.
C14_CoercionIsolated ==
    ypc = "assembled" =>
        \A f \in AssemblyKeys :
            player[f] = IF coerce(f, all_data[f]) = Raised THEN NoneV ELSE coerce(f, all_data[f])

\* A float field that fails is converted before an int field and a text field
\* that are present in the record.
C14_Witness ==
    /\ ypc = "assembled"
    /\ order[1] = "points_per_game" /\ all_data["points_per_game"] = StrV(<<"-">>)
    /\ player["points_per_game"] = NoneV
    /\ player["games_played"] = IntV(9)
    /\ player["position"] = StrV(<<"Center">>)
    /\ player["championships"] = IntV(6)

\* ---------------------------------------------------------------------------
\* _parse_bio_info. The page text is a sequence of tokens: the label, the
\* tags and bullets that end a position, alphabetic words, blanks, and others.
\* "U+25AA" stands for the bullet character.

AlphaWords ==
    {"Point", "Guard", "Center", "Forward", "and", "Shoots",
     "Supercalifragilisticexpialidocious"}
PositionEnds == {"&#9642;", "U+25AA", "<strong>", "Shoots"}

\* len() of a token of a position.
CharLen(t) ==
    CASE t \in {"Point", "Guard"} -> 5
      [] t \in {"Center", "Shoots"} -> 6
      [] t = "Forward" -> 7
      [] t = "and" -> 3
      [] t = "Supercalifragilisticexpialidocious" -> 34
      [] OTHER -> 1
RECURSIVE TextLen(_)
TextLen(txt) == IF txt = <<>> THEN 0 ELSE CharLen(Head(txt)) + TextLen(Tail(txt))

\* (?:\s*&#9642;|\s*U+25AA|\s*<strong>|\s*Shoots) matches at q.
EndsAt(html, q) ==
    \A r \in {RunLen(html, q, Space, -1)} : q + r <= Len(html) /\ html[q + r] \in PositionEnds

\* The matches of the expression of lines 433-437 that start at token p, as
\* pairs of the blanks taken by the second \s* and the length of group 1.
PositionMatches(html, p) ==
    IF html[p] # "Position:" THEN {}
    ELSE LET a == p + 1 + RunLen(html, p + 1, Space, -1)
         IN  IF a > Len(html) \/ html[a] # "</strong>" THEN {}
             ELSE {kn \in (0..RunLen(html, a + 1, Space, -1)) \X (1..Len(html)) :
                     /\ a + kn[1] + kn[2] <= Len(html)
                     /\ \A i \in (a + 1 + kn[1])..(a + kn[1] + kn[2]) :
                            html[i] \in AlphaWords \cup Space
                     /\ EndsAt(html, a + 1 + kn[1] + kn[2])}

\* pos_match.group(1) of re.search: the leftmost start, the second \s* greedy,
\* the group lazy. <<>> when the expression does not match.
position_group(html) ==
    LET starts == {p \in 1..Len(html) : PositionMatches(html, p) # {}}
    IN  IF starts = {} THEN <<>>
        ELSE LET p == CHOOSE x \in starts : \A y \in starts : x <= y
                 ms == PositionMatches(html, p)
                 kn == CHOOSE m \in ms : \A o \in ms :
                           m[1] > o[1] \/ (m[1] = o[1] /\ m[2] <= o[2])
                 a == p + 1 + RunLen(html, p + 1, Space, -1)
             IN  SubSeq(html, a + 1 + kn[1], a + kn[1] + kn[2])

\* ' '.join(position.split())
RECURSIVE Collapse(_)
Collapse(txt) ==
    LET t == Strip(txt)
    IN  IF t = <<>> THEN <<>>
        ELSE IF Len(t) = 1 THEN t
        ELSE IF t[2] \in Space
        THEN <<t[1], " ">> \o Collapse(SubSeq(t, 3, Len(t)))
        ELSE <<t[1]>> \o Collapse(Tail(t))

\* position.split(' and ')[0].strip() when ' and ' occurs in the position.
FirstPosition(txt) ==
    LET ands == {i \in 2..(Len(txt) - 2) : txt[i] = " " /\ txt[i + 1] = "and" /\ txt[i + 2] = " "}
    IN  IF ands = {} THEN txt
        ELSE Strip(SubSeq(txt, 1, (CHOOSE i \in ands : \A j \in ands : i <= j) - 1))

\* Variant: the position is stripped, its inner whitespace left as it is.
parse_bio_info_uncollapsed(html) ==
    LET position == FirstPosition(Strip(position_group(html)))
    IN  IF position # <<>> /\ TextLen(position) < 30 THEN position ELSE <<>>

\* The position of _parse_bio_info, <<>> when info has no 'position'.
parse_bio_info(html) ==
    LET position == FirstPosition(Collapse(position_group(html)))
    IN  IF position # <<>> /\ TextLen(position) < 30 THEN position ELSE <<>>

\* ---------------------------------------------------------------------------
\* scrape_player and save_player_data, as main calls them. A fetched document
\* is its text (html_text) together with the row that the location, parse and
\* row selection of each table end in (selected). failed tells for each stage
\* whether an exception is raised in its try block, and where: before the
\* first field is stored or after it.

Stages == {"career", "advanced", "bio", "accolades"}
NoRow == [found |-> FALSE, cells |-> <<>>]
RowOf(cells) == [found |-> TRUE, cells |-> cells]
RawOf(txt) == IF txt = <<>> THEN NoneV ELSE StrV(txt)
EmptyMap == [k \in {} |-> NoneV]

\* {**f, **g}
Merge(f, g) == [k \in DOMAIN f \cup DOMAIN g |-> IF k \in DOMAIN g THEN g[k] ELSE f[k]]

\* The keys in the order in which the four stages insert them.
InsertOrder ==
    <<"years_active", "games_played", "minutes_per_game", "field_goal_pct", "three_point_pct",
      "free_throw_pct", "points_per_game", "rebounds_per_game", "assists_per_game",
      "steals_per_game", "blocks_per_game", "player_efficiency_rating", "true_shooting_pct",
      "usage_rate", "box_plus_minus", "win_shares", "win_shares_per_48",
      "value_over_replacement", "position", "championships", "mvp_awards",
      "finals_mvp_awards", "scoring_titles", "all_star_selections", "all_nba_selections",
      "all_defensive_selections", "dpoy_awards">>
ItemsOrder(d) == SelectSeq(InsertOrder, LAMBDA k : k \in DOMAIN d)

FailPoints == {"never", "start", "midway"}

\* What a stage has stored when its try block is left: all of full, or the
\* keys stored before the exception, the other keys as in initial.
StoredAt(initial, full, stored, fp) ==
    IF fp = "never" THEN full
    ELSE LET done == SelectSeq(stored, LAMBDA k : k \in DOMAIN full)
             kept == {done[i] : i \in 1..(IF fp = "start" THEN 0 ELSE Min(1, Len(done)))}
         IN  [k \in DOMAIN initial \cup kept |-> IF k \in kept THEN full[k] ELSE initial[k]]

CareerStored ==
    <<"years_active", "games_played", "minutes_per_game", "field_goal_pct", "three_point_pct",
      "free_throw_pct", "points_per_game", "rebounds_per_game", "assists_per_game",
      "steals_per_game", "blocks_per_game">>
AdvancedStored ==
    <<"player_efficiency_rating", "true_shooting_pct", "usage_rate", "box_plus_minus",
      "win_shares", "win_shares_per_48", "value_over_replacement">>
AccoladesStored ==
    <<"championships", "mvp_awards", "finals_mvp_awards", "all_star_selections",
      "all_nba_selections", "all_defensive_selections", "dpoy_awards", "scoring_titles">>

\* _parse_career_stats: stats stays {} when no row is reached; years_active is
\* stored only when the first header cell gives one.
parse_career_stats(sel, fp) ==
    IF ~sel.found THEN EmptyMap
    ELSE \* one evaluation of the row's cells
         CHOOSE m \in { StoredAt(EmptyMap,
                                 [f \in {g \in PerGameFields \cup {"years_active", "games_played"} :
                                            g = "years_active" => c[g] # <<>>} |-> RawOf(c[f])],
                                 CareerStored, fp) : c \in {career_cell_stats(sel.cells)} } : TRUE

\* _parse_advanced_stats
parse_advanced_stats(sel, fp) ==
    IF ~sel.found THEN EmptyMap
    ELSE CHOOSE m \in { StoredAt(EmptyMap, [f \in AdvancedFields |-> RawOf(c[f])],
                                 AdvancedStored, fp) : c \in {advanced_cell_stats(sel.cells)} } : TRUE

\* _parse_bio_info: info has 'position' only when a valid one is found.
bio_info_of(html, fp) ==
    IF fp # "never" THEN EmptyMap
    ELSE CHOOSE m \in { IF pos = <<>> THEN EmptyMap ELSE [f \in {"position"} |-> StrV(pos)] :
                           pos \in {parse_bio_info(html)} } : TRUE

\* _count_accolades: the dict starts with a 0 for every category (lines
\* 503-512) and is returned whether or not the try block completes.
accolades_of(html, fp) ==
    IF fp = "start" THEN [c \in Categories |-> IntV(0)]
    ELSE CHOOSE m \in { StoredAt([c \in Categories |-> IntV(0)],
                                 [c \in Categories |-> IntV(a[c])], AccoladesStored, fp) :
                           a \in {count_accolades(html)} } : TRUE

\* The four stage maps of lines 613-616.
StageMaps(html, sel, fps) ==
    [career |-> parse_career_stats(sel.per_game, fps.career),
     advanced |-> parse_advanced_stats(sel.advanced, fps.advanced),
     bio |-> bio_info_of(html, fps.bio),
     accolades |-> accolades_of(html, fps.accolades)]

\* all_data = {**career_stats, **advanced_stats, **bio_info, **accolades}
merge_all(st) == Merge(Merge(Merge(st.career, st.advanced), st.bio), st.accolades)

\* asdict(self): the fields in the order of their declaration.
DeclOrder ==
    <<"name", "player_id", "url", "games_played", "points_per_game", "rebounds_per_game",
      "assists_per_game", "steals_per_game", "blocks_per_game", "minutes_per_game",
      "field_goal_pct", "three_point_pct", "free_throw_pct", "true_shooting_pct",
      "player_efficiency_rating", "usage_rate", "box_plus_minus", "win_shares",
      "win_shares_per_48", "value_over_replacement", "championships", "mvp_awards",
      "finals_mvp_awards", "scoring_titles", "all_star_selections", "all_nba_selections",
      "all_defensive_selections", "dpoy_awards", "position", "years_active">>

\* Variant: a field is kept when its value is truthy.
to_dict_truthy(p) ==
    [f \in {g \in Fields : p[g] # NoneV /\ p[g] # IntV(0) /\ p[g] # StrV(<<>>)} |-> p[f]]

\* {k: v for k, v in asdict(self).items() if v is not None}
to_dict(p) == [f \in {g \in Fields : p[g] # NoneV} |-> p[f]]

\* json.dumps(data, indent=2): the members in the order of the dict, a number
\* for an int or a float, a string for text, null for None.
json_value(v) ==
    IF v.t = "none" THEN [json |-> "null", n |-> 0, e |-> 0, s |-> <<>>]
    ELSE IF v.t = "str" THEN [json |-> "string", n |-> 0, e |-> 0, s |-> v.s]
    ELSE [json |-> "number", n |-> v.n, e |-> v.e, s |-> <<>>]
json_dumps(d) ==
    LET ks == SelectSeq(DeclOrder, LAMBDA k : k \in DOMAIN d)
    IN  [i \in 1..Len(ks) |-> <<ks[i], json_value(d[ks[i]])>>]

\* json_data.encode('utf-8')
encode_utf8(txt) == [encoding |-> "utf-8", text |-> txt]

\* f"bronze/players/{player.player_id}.json"
storage_key(p) == <<"bronze/players/">> \o p["player_id"].s \o <<".json">>

BASE_URL == "https://www.basketball-reference.com"

\* GOAT_PLAYERS, two of its entries.
GOAT_PLAYERS ==
    { [player_id |-> <<"jamesle01">>, name |-> <<"LeBron James">>, first_letter |-> "j"],
      [player_id |-> <<"curryst01">>, name |-> <<"Stephen Curry">>, first_letter |-> "c"] }

\* f"{self.BASE_URL}/players/{first_letter}/{player_id}.html"
construct_player_url(subj) ==
    <<BASE_URL, "/players/", subj.first_letter, "/">> \o subj.player_id \o <<".html">>

\* Variant: the stages have no handler of their own, so that an exception in
\* a stage reaches the handler of lines 654-656.
scrape_player_unguarded(subj, fetched, html, sel, fps) ==
    IF ~fetched \/ \E g \in Stages : fps[g] # "never"
    THEN [returned |-> "none", stage |-> <<>>, all_data |-> <<>>, order |-> <<>>, player |-> <<>>]
    ELSE CHOOSE r \in
           { [returned |-> "player", stage |-> st, all_data |-> merge_all(st),
              order |-> ItemsOrder(merge_all(st)),
              player |-> assemble(NewPlayer(subj.name, subj.player_id, construct_player_url(subj)),
                                  merge_all(st), ItemsOrder(merge_all(st)))] :
             st \in {StageMaps(html, sel, fps)} } : TRUE

\* scrape_player, lines 601-656: None when _make_request gives no response,
\* else the record assembled from the four stage maps.
scrape_player(subj, fetched, html, sel, fps) ==
    IF ~fetched
    THEN [returned |-> "none", stage |-> <<>>, all_data |-> <<>>, order |-> <<>>, player |-> <<>>]
    ELSE CHOOSE r \in
           { [returned |-> "player", stage |-> st, all_data |-> merge_all(st),
              order |-> ItemsOrder(merge_all(st)),
              player |-> assemble(NewPlayer(subj.name, subj.player_id, construct_player_url(subj)),
                                  merge_all(st), ItemsOrder(merge_all(st)))] :
             st \in {StageMaps(html, sel, fps)} } : TRUE

\* Variant: a failed write is logged and not raised again.
save_outcome_swallowed(written) == "returned"

\* Lines 665-667: the handler logs the failure and raises it again.
save_outcome(written) == IF written THEN "returned" ELSE "raised"

\* The documents: one that has none of the texts the stages look for, one
\* with a position, one with award mentions, one with a Def. POY in the award
\* list, and one with a position and award mentions.
PositionText ==
    <<"Position:", "</strong>", "\n", "Point", " ", "Guard", " ", "and", " ", "Center", "\n",
      "&#9642;">>
ScrapePages ==
    { <<".">>,
      PositionText,
      <<"7", "x", " ", "MVP">>,
      <<BlingOpen, "Def.", " ", "POY", UlClose>>,
      PositionText \o <<"7", "x", " ", "MVP">> }

\* The row each table ends in: none, or a row of cells.
PerGameSelections ==
    { NoRow,
      RowOf(<<Item("th", "season", <<"1", "5", " ", "Yrs">>), Item("td", "g", <<"9">>),
              Item("td", "pts_per_g", <<" ", "7">>)>>),
      RowOf(<<Item("th", "season", <<"Career">>), Item("td", "pts_per_g", <<" ", "7">>)>>),
      RowOf(<<Item("th", "g", <<"8">>)>>) }
AdvancedSelections ==
    { NoRow, RowOf(<<Item("td", "per", <<"2">>)>>), RowOf(<<Item("th", "season", <<"Career">>)>>) }

InitScrape ==
    /\ subject \in GOAT_PLAYERS
    /\ html_text \in ScrapePages
    /\ selected \in [per_game : PerGameSelections, advanced : AdvancedSelections]
    /\ failed \in [career : FailPoints, advanced : FailPoints, bio : FailPoints,
                   accolades : FailPoints]
    /\ response = "" /\ stage = <<>> /\ result = "" /\ to_dict_data = <<>>
    /\ storage_calls = <<>> /\ save_result = "" /\ spc = "call"
    /\ table_html = <<>>
    /\ IdleCount /\ IdleAccolades /\ IdleLocator /\ IdleUnmask /\ IdleRows /\ IdleCells
    /\ IdleAssembly
    /\ IdleRequest
    /\ IdleRate
    /\ IdleThreads
    /\ IdleBio
    /\ IdleMain
    /\ IdleStore

\* scrape_player(player_id, player_name), as main calls it.
ScrapePlayer ==
    /\ spc = "call"
    /\ \E fetched \in BOOLEAN :
         \E r \in {scrape_player(subject, fetched, html_text, selected, failed)} :
            /\ response' = IF fetched THEN "response" ELSE "none"
            /\ result' = r.returned
            /\ stage' = r.stage
            /\ all_data' = r.all_data
            /\ order' = r.order
            /\ player' = r.player
    /\ spc' = "returned"
    /\ UNCHANGED <<cvars, html_text, avars, lvars, table_html, upc, rvars, xvars, ypc,
                   subject, selected, failed, to_dict_data, storage_calls, save_result, mvars, tvars, pvars, bvars, dvars, fvars>>

\* save_player_data(player_stats), lines 658-668; the write succeeds or raises.
SavePlayerData ==
    /\ spc = "returned" /\ result = "player"
    /\ to_dict_data' = to_dict(player)
    /\ \E written \in BOOLEAN :
         /\ storage_calls' = Append(storage_calls,
                                    [op |-> "write", key |-> storage_key(player),
                                     data |-> encode_utf8(json_dumps(to_dict_data')), ok |-> written])
         /\ save_result' = save_outcome(written)
    /\ spc' = "saved"
    /\ UNCHANGED <<cvars, html_text, avars, lvars, table_html, upc, rvars, xvars, yvars,
                   subject, response, selected, failed, stage, result, mvars, tvars, pvars, bvars, dvars, fvars>>

\* main, lines 727-729: nothing is saved for a player that was not scraped.
SkipSave ==
    /\ spc = "returned" /\ result = "none"
    /\ spc' = "skipped"
    /\ UNCHANGED <<cvars, html_text, avars, lvars, table_html, upc, rvars, xvars, yvars,
                   subject, response, selected, failed, stage, result, to_dict_data, storage_calls,
                   save_result, mvars, tvars, pvars, bvars, dvars, fvars>>

NextScrape == ScrapePlayer \/ SavePlayerData \/ SkipSave

SpecScrape == InitScrape /\ [][NextScrape]_vars

\* The document of the state matches none of the stages' texts.
MatchesNothing ==
    /\ html_text = <<".">>
    /\ selected = [per_game |-> NoRow, advanced |-> NoRow]

\* C15: for a fetched document that matches none of the texts the stages look
\* for, the returned record has only name, player_id and url, and its
\* serialization has exactly these three keys.
C15_MinimalRecord ==
    (spc = "saved" /\ MatchesNothing) =>
        /\ \A f \in Fields \ IdentityFields : player[f] = NoneV
        /\ DOMAIN to_dict_data = IdentityFields

\* The typed value the record holds for a raw value of a stage map.
Typed(key, value) ==
    IF value = NoneV \/ coerce(key, value) = Raised THEN NoneV ELSE coerce(key, value)

\* C16: once the document is fetched, every stage returns a field map whether
\* or not an exception is raised in it, the map of a stage in which nothing is
\* raised is the one it returns when no stage fails, every field of every
\* stage map is in the record with its typed value, and scrape_player returns
\* the record, not None.
C16_StagesTotal ==
    (spc # "call" /\ response = "response") =>
        /\ result = "player"
        /\ DOMAIN stage.career \subseteq PerGameFields \cup {"years_active", "games_played"}
        /\ DOMAIN stage.advanced \subseteq AdvancedFields
        /\ DOMAIN stage.bio \subseteq {"position"}
        /\ DOMAIN stage.accolades = Categories
        /\ failed.career = "never" => stage.career = parse_career_stats(selected.per_game, "never")
        /\ failed.advanced = "never" =>
               stage.advanced = parse_advanced_stats(selected.advanced, "never")
        /\ failed.bio = "never" => stage.bio = bio_info_of(html_text, "never")
        /\ failed.accolades = "never" => stage.accolades = accolades_of(html_text, "never")
        /\ \A g \in Stages : \A k \in DOMAIN stage[g] : player[k] = Typed(k, stage[g][k])

\* An exception at the start of the advanced stage and one midway in the
\* accolades stage, with the fields of the career and bio stages, and the
\* first count of the accolades stage, in the returned record.
C16_Witness ==
    /\ spc = "returned" /\ result = "player"
    /\ failed.advanced = "start" /\ failed.accolades = "midway"
    /\ failed.career = "never" /\ failed.bio = "never"
    /\ selected.advanced.found
    /\ player["player_efficiency_rating"] = NoneV
    /\ player["points_per_game"] = FloatV(7, 0)
    /\ player["games_played"] = IntV(9)
    /\ player["years_active"] = StrV(<<"1", "5">>)
    /\ player["position"] = StrV(<<"Point", " ", "Guard">>)
    /\ player["championships"] = IntV(0)
    /\ player["mvp_awards"] = IntV(0)

\* C17: the dict that to_dict() gives for a record has exactly the fields of
\* the record whose value is not None, each with the value of the record (a
\* count of 0 included), and neither the dict nor its JSON text has a null.
C17_AbsenceByOmission ==
    spc = "saved" =>
        /\ \A f \in Fields : f \in DOMAIN to_dict_data <=> player[f] # NoneV
        /\ \A f \in DOMAIN to_dict_data : to_dict_data[f] = player[f] /\ to_dict_data[f].t # "none"
        /\ \A c \in DOMAIN storage_calls :
               \A i \in DOMAIN storage_calls[c].data.text :
                   storage_calls[c].data.text[i][2].json # "null"

\* A record with a count of 0, which the dict keeps, and without a position,
\* which the dict omits.
C17_Witness ==
    /\ spc = "saved"
    /\ player["championships"] = IntV(0) /\ "championships" \in DOMAIN to_dict_data
    /\ to_dict_data["championships"] = IntV(0)
    /\ player["position"] = NoneV /\ "position" \notin DOMAIN to_dict_data
    /\ player["points_per_game"] = FloatV(7, 0) /\ "points_per_game" \in DOMAIN to_dict_data

\* The fields of the record that are not None.
Present == {f \in Fields : player[f] # NoneV}

\* C18: save_player_data makes exactly one storage call, a write under the key
\* bronze/players/<player_id>.json of the UTF-8 JSON text of the record's
\* present fields; it makes no read, exists, list_keys or delete call, and it
\* raises when the write raises. No storage call is made before it.
C18_SingleWrite ==
    /\ spc # "saved" => storage_calls = <<>>
    /\ spc = "saved" =>
        /\ Len(storage_calls) = 1
        /\ storage_calls[1].op = "write"
        /\ storage_calls[1].key = <<"bronze/players/">> \o subject.player_id \o <<".json">>
        /\ storage_calls[1].data.encoding = "utf-8"
        /\ Len(storage_calls[1].data.text) = Cardinality(Present)
        /\ {storage_calls[1].data.text[i][1] : i \in DOMAIN storage_calls[1].data.text} = Present
        /\ \A i \in DOMAIN storage_calls[1].data.text :
               \A m \in {storage_calls[1].data.text[i]} :
                   /\ m[2].n = player[m[1]].n /\ m[2].e = player[m[1]].e /\ m[2].s = player[m[1]].s
                   /\ m[2].json = IF player[m[1]].t = "str" THEN "string" ELSE "number"
        /\ save_result = IF storage_calls[1].ok THEN "returned" ELSE "raised"

\* The write of a record with a position raises, and so does save_player_data.
C18_Witness ==
    /\ spc = "saved"
    /\ Len(storage_calls) = 1
    /\ ~storage_calls[1].ok
    /\ save_result = "raised"
    /\ storage_calls[1].key = <<"bronze/players/", "curryst01", ".json">>
    /\ \E i \in DOMAIN storage_calls[1].data.text :
           storage_calls[1].data.text[i] =
               <<"position", [json |-> "string", n |-> 0, e |-> 0, s |-> <<"Point", " ", "Guard">>]>>

\* ---------------------------------------------------------------------------
\* _make_request and _rate_limit. Time is in whole seconds; since_last is the
\* time since self.last_request_time, as far as it is below the minimum delay.

MIN_REQUEST_DELAY == 3

\* What an attempt's GET ends in: a response that passes raise_for_status, a
\* 404, a 403, another error status, or an exception of the session.
FetchOutcomes == {"ok", "404", "403", "500", "exception"}
Transient == {"403", "500", "exception"}

RECURSIVE Pow2(_)
Pow2(n) == IF n <= 0 THEN 1 ELSE 2 * Pow2(n - 1)

\* Variant: the sleep is a second short of the minimum delay.
rate_limit_sleep_short(elapsed, n) ==
    IF elapsed < MIN_REQUEST_DELAY - 1
    THEN <<[why |-> "rate", secs |-> MIN_REQUEST_DELAY - elapsed - 1, at |-> n]>>
    ELSE <<>>

\* _rate_limit before the GET of attempt n: the sleep that fills the minimum
\* delay, if any.
rate_limit_sleep(elapsed, n) ==
    IF elapsed < MIN_REQUEST_DELAY
    THEN <<[why |-> "rate", secs |-> MIN_REQUEST_DELAY - elapsed, at |-> n]>>
    ELSE <<>>

\* The sleep after attempt n: 2 ** attempt * 2 after a 403, 2 ** attempt in
\* the handler of an exception when another attempt follows.
backoff(out, n, retries) ==
    IF out = "403" THEN <<[why |-> "backoff", secs |-> Pow2(n) * 2, at |-> n]>>
    ELSE IF out \in {"500", "exception"} /\ n < retries - 1
    THEN <<[why |-> "backoff", secs |-> Pow2(n), at |-> n]>>
    ELSE <<>>

\* Variant: a 404 leaves the loop running.
ends_call_retry_404(out) == out = "ok"

\* The outcomes on which the attempt returns: the response, or None on a 404.
ends_call(out) == out \in {"ok", "404"}

\* Variant: one more attempt than max_retries.
attempts_left_one_more(n, retries) == n <= retries

\* for attempt in range(max_retries)
attempts_left(n, retries) == n < retries

SleptFor(log) == IF log = <<>> THEN 0 ELSE log[Len(log)].secs

InitRequest ==
    /\ max_retries \in 1..MaxRetries
    /\ since_last \in 0..MIN_REQUEST_DELAY
    /\ attempt = 0 /\ outcomes = <<>> /\ sleeps = <<>> /\ returned = "" /\ mpc = "loop"
    /\ html_text = <<>> /\ table_html = <<>>
    /\ IdleCount /\ IdleAccolades /\ IdleLocator /\ IdleUnmask /\ IdleRows /\ IdleCells
    /\ IdleAssembly /\ IdleScrape
    /\ IdleRate
    /\ IdleThreads
    /\ IdleBio
    /\ IdleMain
    /\ IdleStore

\* One pass of the loop, lines 100-120: the rate limit, the GET that takes
\* took seconds, and what follows from its outcome.
Attempt ==
    /\ mpc = "loop" /\ attempts_left(attempt, max_retries)
    /\ \E out \in FetchOutcomes, took \in 0..MIN_REQUEST_DELAY :
         /\ outcomes' = Append(outcomes, out)
         /\ sleeps' = sleeps \o rate_limit_sleep(since_last, attempt) \o
                      (IF ends_call(out) THEN <<>> ELSE backoff(out, attempt, max_retries))
         /\ since_last' = Min(MIN_REQUEST_DELAY,
                              took + (IF ends_call(out) THEN 0
                                      ELSE SleptFor(backoff(out, attempt, max_retries))))
         /\ IF ends_call(out)
            THEN /\ returned' = IF out = "ok" THEN "response" ELSE "None"
                 /\ mpc' = "done"
                 /\ attempt' = attempt
            ELSE /\ attempt' = attempt + 1
                 /\ UNCHANGED <<returned, mpc, tvars, pvars, bvars, dvars, fvars>>
    /\ UNCHANGED <<cvars, html_text, avars, lvars, table_html, upc, rvars, xvars, yvars, svars,
                   max_retries, tvars, pvars, bvars, dvars, fvars>>

\* Lines 122-123: the loop is over without a return.
GiveUp ==
    /\ mpc = "loop" /\ ~attempts_left(attempt, max_retries)
    /\ returned' = "None"
    /\ mpc' = "done"
    /\ UNCHANGED <<cvars, html_text, avars, lvars, table_html, upc, rvars, xvars, yvars, svars,
                   max_retries, attempt, outcomes, sleeps, since_last, tvars, pvars, bvars, dvars, fvars>>

NextRequest == Attempt \/ GiveUp

SpecRequest == InitRequest /\ [][NextRequest]_vars

\* The loop is a sequential program: a pass that can be taken is taken.
SpecRequestFair == SpecRequest /\ WF_vars(NextRequest)

\* The GETs of the call are the recorded outcomes.
Gets == Len(outcomes)

\* C19: _make_request ends, with at most max_retries GETs: with the response
\* at the first attempt that succeeds, which is its last GET, and with None
\* after max_retries attempts that all failed with an exception, a 403 or
\* another error status.
C19_BoundedRetries ==
    /\ [](/\ Gets <= max_retries
          /\ \A i \in 1..(Gets - 1) : outcomes[i] \in Transient
          /\ mpc = "done" =>
               /\ Gets >= 1 /\ outcomes[Gets] = "ok" => returned = "response"
               /\ returned = "response" => outcomes[Gets] = "ok"
               /\ (\A i \in 1..Gets : outcomes[i] \in Transient) =>
                      returned = "None" /\ Gets = max_retries)
    /\ <>(mpc = "done")

\* A call that returns the response at its third attempt, after a 403 and an
\* exception.
C19_Witness ==
    /\ mpc = "done" /\ returned = "response"
    /\ outcomes = <<"403", "exception", "ok">>

\* The backoff sleeps of the call, in seconds.
BackoffSecs ==
    LET b == SelectSeq(sleeps, LAMBDA z : z.why = "backoff") IN [i \in 1..Len(b) |-> b[i].secs]

\* C20: an attempt that receives status 404 is the last one of the call: the
\* call is over with None, no GET follows, and no backoff sleep follows (the
\* backoff sleeps are those of the attempts before it), whatever 403s, error
\* statuses or exceptions came before.
C20_NotFoundEnds ==
    \A i \in 1..Gets :
        outcomes[i] = "404" =>
            /\ i = Gets
            /\ mpc = "done" /\ returned = "None"
            /\ Len(BackoffSecs) = Gets - 1
            /\ attempt = Gets - 1

\* A 404 at the third attempt, after a 403 and an exception with their
\* backoff sleeps of 2 seconds each.
C20_Witness ==
    /\ outcomes = <<"403", "exception", "404">>
    /\ mpc = "done" /\ returned = "None"
    /\ BackoffSecs = <<2, 2>>
    /\ max_retries = 3

\* C25: when the first k attempts fail with an exception and attempt k+1
\* succeeds, there are k+1 GETs and k sleeps, the backoff sleeps after the
\* failed attempts, and the rate limiter sleeps before none of the attempts
\* that follow the first.
C25_RetryAccounting ==
    (/\ mpc = "done" /\ returned = "response"
     /\ \A i \in 1..(Gets - 1) : outcomes[i] = "exception") =>
        /\ Len(BackoffSecs) = Gets - 1
        /\ \A i \in DOMAIN sleeps : sleeps[i].why = "rate" => sleeps[i].at = 0

\* C28: no backoff sleep follows the last attempt, attempt max_retries - 1,
\* whether it failed with an exception, an error status or a 403; the sleep
\* after attempt i is 2^i seconds after an exception and 2 * 2^i after a 403.
C28_BackoffPrecedesRetry ==
    \A i \in DOMAIN sleeps :
        sleeps[i].why = "backoff" =>
            /\ sleeps[i].at < max_retries - 1
            /\ sleeps[i].secs = IF outcomes[sleeps[i].at + 1] = "403"
                                THEN 2 * Pow2(sleeps[i].at) ELSE Pow2(sleeps[i].at)

\* ---------------------------------------------------------------------------
\* _rate_limit over the requests that one scraper makes one after the other.
\* now is time.time() in whole seconds; the first request comes at least the
\* minimum delay after time 0, the initial last_request_time.

StartTimes == MIN_REQUEST_DELAY..(MIN_REQUEST_DELAY + MaxRequests)

InitRate ==
    /\ now \in StartTimes
    /\ last_request_time = 0
    /\ get_times = <<>> /\ stamps = <<>> /\ rate_sleeps = <<>>
    /\ html_text = <<>> /\ table_html = <<>>
    /\ IdleCount /\ IdleAccolades /\ IdleLocator /\ IdleUnmask /\ IdleRows /\ IdleCells
    /\ IdleAssembly /\ IdleScrape /\ IdleRequest
    /\ IdleThreads
    /\ IdleBio
    /\ IdleMain
    /\ IdleStore

\* One request, lines 101-104: passed seconds after the one before, elapsed is
\* read, the sleep (if any) lasts over seconds longer than asked for,
\* last_request_time is set, and the GET goes out gap seconds later.
Request ==
    /\ Len(get_times) < MaxRequests
    /\ \E passed \in 0..(MIN_REQUEST_DELAY + 1), over \in 0..1, gap \in 0..1 :
         \E elapsed \in {now + passed - last_request_time} :
           \E slept \in {rate_limit_sleep(elapsed, Len(get_times))} :
             /\ rate_sleeps' = Append(rate_sleeps, [elapsed |-> elapsed, sleep |-> slept])
             /\ last_request_time' =
                    now + passed + (IF slept = <<>> THEN 0 ELSE slept[1].secs + over)
             /\ stamps' = Append(stamps, last_request_time')
             /\ get_times' = Append(get_times, last_request_time' + gap)
             /\ now' = last_request_time' + gap
    /\ UNCHANGED <<cvars, html_text, avars, lvars, table_html, upc, rvars, xvars, yvars, svars,
                   mvars, pvars, bvars, dvars, fvars>>

NextRate == Request

SpecRate == InitRate /\ [][NextRate]_vars

\* C21: every GET after the first goes out at least MIN_REQUEST_DELAY after
\* the timestamp recorded for the one before; _rate_limit sleeps for
\* MIN_REQUEST_DELAY minus the elapsed time when that is positive, and makes
\* no sleep call otherwise.
C21_MinimumDelay ==
    /\ \A i \in 2..Len(get_times) : get_times[i] - stamps[i - 1] >= MIN_REQUEST_DELAY
    /\ \A i \in DOMAIN rate_sleeps :
          IF rate_sleeps[i].elapsed < MIN_REQUEST_DELAY
          THEN /\ Len(rate_sleeps[i].sleep) = 1
               /\ rate_sleeps[i].sleep[1].secs = MIN_REQUEST_DELAY - rate_sleeps[i].elapsed
          ELSE rate_sleeps[i].sleep = <<>>

\* Three requests: the second right after the first, with a sleep of the whole
\* delay, the third after more than the delay, without a sleep.
C21_Witness ==
    /\ Len(get_times) = 3
    /\ rate_sleeps[1].sleep = <<>>
    /\ rate_sleeps[2].elapsed = 0 /\ rate_sleeps[2].sleep[1].secs = MIN_REQUEST_DELAY
    /\ get_times[2] - stamps[1] = MIN_REQUEST_DELAY
    /\ rate_sleeps[3].elapsed > MIN_REQUEST_DELAY /\ rate_sleeps[3].sleep = <<>>

\* ---------------------------------------------------------------------------
\* Two threads that each make one request through the same scraper. The
\* statements of _rate_limit are the steps of a thread; nothing in the class
\* holds a lock. clock is time.time() in whole seconds.

Threads == {"t1", "t2"}

InitThreads ==
    /\ clock = MIN_REQUEST_DELAY
    /\ shared_last \in {0, MIN_REQUEST_DELAY}
    /\ tpc = [t \in Threads |-> "start"]
    /\ telapsed = [t \in Threads |-> 0]
    /\ wake = [t \in Threads |-> 0]
    /\ issued = <<>>
    /\ html_text = <<>> /\ table_html = <<>>
    /\ IdleCount /\ IdleAccolades /\ IdleLocator /\ IdleUnmask /\ IdleRows /\ IdleCells
    /\ IdleAssembly /\ IdleScrape /\ IdleRequest /\ IdleRate
    /\ IdleBio
    /\ IdleMain
    /\ IdleStore

\* Line 90: elapsed = time.time() - self.last_request_time
ReadElapsed(t) ==
    /\ tpc[t] = "start"
    /\ telapsed' = [telapsed EXCEPT ![t] = clock - shared_last]
    /\ tpc' = [tpc EXCEPT ![t] = "test"]
    /\ UNCHANGED <<clock, shared_last, wake, issued,
                   cvars, html_text, avars, lvars, table_html, upc, rvars, xvars, yvars, svars,
                   mvars, tvars, bvars, dvars, fvars>>

\* Lines 91-94: the sleep begins, or is skipped.
BeginSleep(t) ==
    /\ tpc[t] = "test"
    /\ IF telapsed[t] < MIN_REQUEST_DELAY
       THEN /\ wake' = [wake EXCEPT ![t] = clock + MIN_REQUEST_DELAY - telapsed[t]]
            /\ tpc' = [tpc EXCEPT ![t] = "asleep"]
       ELSE /\ tpc' = [tpc EXCEPT ![t] = "stamp"]
            /\ UNCHANGED wake
    /\ UNCHANGED <<clock, shared_last, telapsed, issued,
                   cvars, html_text, avars, lvars, table_html, upc, rvars, xvars, yvars, svars,
                   mvars, tvars, bvars, dvars, fvars>>

\* time.sleep returns once the time asked for has passed.
EndSleep(t) ==
    /\ tpc[t] = "asleep" /\ clock >= wake[t]
    /\ tpc' = [tpc EXCEPT ![t] = "stamp"]
    /\ UNCHANGED <<clock, shared_last, telapsed, wake, issued,
                   cvars, html_text, avars, lvars, table_html, upc, rvars, xvars, yvars, svars,
                   mvars, tvars, bvars, dvars, fvars>>

\* Line 95: self.last_request_time = time.time()
Stamp(t) ==
    /\ tpc[t] = "stamp"
    /\ shared_last' = clock
    /\ tpc' = [tpc EXCEPT ![t] = "get"]
    /\ UNCHANGED <<clock, telapsed, wake, issued,
                   cvars, html_text, avars, lvars, table_html, upc, rvars, xvars, yvars, svars,
                   mvars, tvars, bvars, dvars, fvars>>

\* Line 104: self.session.get(url, timeout=10)
Get(t) ==
    /\ tpc[t] = "get"
    /\ issued' = Append(issued, [thread |-> t, at |-> clock])
    /\ tpc' = [tpc EXCEPT ![t] = "done"]
    /\ UNCHANGED <<clock, shared_last, telapsed, wake,
                   cvars, html_text, avars, lvars, table_html, upc, rvars, xvars, yvars, svars,
                   mvars, tvars, bvars, dvars, fvars>>

\* A second passes.
Tick ==
    /\ clock < MaxTime
    /\ \E t \in Threads : tpc[t] # "done"
    /\ clock' = clock + 1
    /\ UNCHANGED <<shared_last, tpc, telapsed, wake, issued,
                   cvars, html_text, avars, lvars, table_html, upc, rvars, xvars, yvars, svars,
                   mvars, tvars, bvars, dvars, fvars>>

NextThreads ==
    \/ Tick
    \/ \E t \in Threads : ReadElapsed(t) \/ BeginSleep(t) \/ EndSleep(t) \/ Stamp(t) \/ Get(t)

SpecThreads == InitThreads /\ [][NextThreads]_vars

\* C26: the test of the elapsed time and the update of last_request_time are
\* one serialized step, so that under every interleaving of two concurrent
\* requests the two GETs are at least MIN_REQUEST_DELAY apart.
C26_SerializedRateLimit ==
    \A i, j \in DOMAIN issued :
        i < j => issued[j].at - issued[i].at >= MIN_REQUEST_DELAY

\* ---------------------------------------------------------------------------
\* _parse_bio_info on its own. The pages have the label and the closing tag,
\* then at most MaxBio tokens of words, blanks and newlines (or at most
\* MaxBio - 2 with a word of 34 letters among them), then a bullet, the next
\* label or something else; some have no label at all.

BioTexts ==
    { <<"Position:", "</strong>">> \o body \o <<end>> :
        body \in SeqsUpTo({" ", "\n", "Guard", "and"}, MaxBio)
                 \cup SeqsUpTo({" ", "Guard", "Supercalifragilisticexpialidocious"}, MaxBio - 2),
        end \in {"&#9642;", "Shoots", "."} }
    \cup SeqsUpTo({"Guard", " ", "&#9642;"}, MaxBio - 2)

InitBio ==
    /\ html_text \in BioTexts
    /\ info = <<>> /\ bpc = "call"
    /\ table_html = <<>>
    /\ IdleCount /\ IdleAccolades /\ IdleLocator /\ IdleUnmask /\ IdleRows /\ IdleCells
    /\ IdleAssembly /\ IdleScrape /\ IdleRequest /\ IdleRate /\ IdleThreads
    /\ IdleMain
    /\ IdleStore

\* _parse_bio_info(html_text); info is the position, <<>> when it has none.
ParseBio ==
    /\ bpc = "call"
    /\ info' = parse_bio_info(html_text)
    /\ bpc' = "done"
    /\ UNCHANGED <<cvars, html_text, avars, lvars, table_html, upc, rvars, xvars, yvars, svars,
                   mvars, tvars, pvars, dvars, fvars>>

NextBio == ParseBio

SpecBio == InitBio /\ [][NextBio]_vars

\* The text between the closing tag and the end of the page text.
AfterTag == SubSeq(html_text, 3, Len(html_text) - 1)

\* C27: a position that _parse_bio_info gives is not empty, has no whitespace
\* at either end, no newline, no two whitespace characters in a row and no
\* ' and ', and is shorter than 30 characters; a page whose position cleans
\* up to 30 characters or more gives none.
C27_PositionSanitized ==
    bpc = "done" =>
        /\ info # <<>> =>
            /\ info[1] \notin Space /\ info[Len(info)] \notin Space
            /\ \A i \in DOMAIN info : info[i] # "\n"
            /\ \A i \in 1..(Len(info) - 1) : ~(info[i] \in Space /\ info[i + 1] \in Space)
            /\ \A i \in 1..(Len(info) - 2) :
                   ~(info[i] = " " /\ info[i + 1] = "and" /\ info[i + 2] = " ")
            /\ TextLen(info) < 30
        /\ (/\ Len(html_text) > 3 /\ html_text[1] = "Position:"
            /\ html_text[Len(html_text)] \in PositionEnds
            /\ "Supercalifragilisticexpialidocious" \in {AfterTag[i] : i \in DOMAIN AfterTag}
            /\ "Guard" \notin {AfterTag[i] : i \in DOMAIN AfterTag}) => info = <<>>

\* A position with the connector on the next line and a second position
\* after it: the first position is given.
C27_Witness ==
    /\ bpc = "done"
    /\ html_text = <<"Position:", "</strong>", "Guard", "\n", "and", " ", "Guard", "&#9642;">>
    /\ info = <<"Guard">>

\* ---------------------------------------------------------------------------
\* main: the loop over GOAT_PLAYERS.items(). A pass of the loop is one step;
\* what scrape_player and save_player_data do in it is drawn from their
\* outcomes: a record, None or an exception; a return or an exception.

\* The first keys of GOAT_PLAYERS, in the order of the dict.
PlayerOrder == <<"jamesle01", "curryst01", "duranke01", "antetgi01">>

ScrapeOutcomes == {"record", "None", "raises"}

\* Variant: a player counts as successful as soon as the scrape gave a record.
driver_verdict_before_save(scraped, saved) ==
    IF scraped = "record" THEN "successful" ELSE "failed"

\* Lines 721-733 for one player: successful after a save that returns, failed
\* when the scrape gave None or when the scrape or the save raised.
driver_verdict(scraped, saved) ==
    IF scraped = "record" /\ saved = "returned" THEN "successful" ELSE "failed"

InitMain ==
    /\ remaining = PlayerOrder
    /\ driver_log = <<>>
    /\ successful = 0 /\ failed_players = 0
    /\ dpc = "loop"
    /\ html_text = <<>> /\ table_html = <<>>
    /\ IdleCount /\ IdleAccolades /\ IdleLocator /\ IdleUnmask /\ IdleRows /\ IdleCells
    /\ IdleAssembly /\ IdleScrape /\ IdleRequest /\ IdleRate /\ IdleThreads /\ IdleBio
    /\ IdleStore

\* One pass of the loop, lines 720-733; save_player_data is called when
\* player_stats is a record.
ProcessPlayer ==
    /\ dpc = "loop" /\ remaining # <<>>
    /\ \E scraped \in ScrapeOutcomes, saved \in {"returned", "raised"} :
         /\ scraped # "record" => saved = "returned"
         /\ driver_log' = Append(driver_log,
                                 [player_id |-> Head(remaining), scraped |-> scraped,
                                  save_called |-> scraped = "record",
                                  saved |-> IF scraped = "record" THEN saved ELSE "none"])
         /\ successful' = successful + (IF driver_verdict(scraped, saved) = "successful" THEN 1 ELSE 0)
         /\ failed_players' = failed_players + (IF driver_verdict(scraped, saved) = "failed" THEN 1 ELSE 0)
    /\ remaining' = Tail(remaining)
    /\ UNCHANGED <<cvars, html_text, avars, lvars, table_html, upc, rvars, xvars, yvars, svars,
                   mvars, tvars, pvars, bvars, dpc, fvars>>

\* Lines 735-736: the loop is over.
FinishMain ==
    /\ dpc = "loop" /\ remaining = <<>>
    /\ dpc' = "done"
    /\ UNCHANGED <<cvars, html_text, avars, lvars, table_html, upc, rvars, xvars, yvars, svars,
                   mvars, tvars, pvars, bvars, remaining, driver_log, successful, failed_players, fvars>>

NextMain == ProcessPlayer \/ FinishMain

SpecMain == InitMain /\ [][NextMain]_vars

\* C29: the players are processed in the order of GOAT_PLAYERS, each once,
\* and all of them whatever failed before; save_player_data is called for
\* exactly the players whose scrape gave a record; successful + failed is the
\* number of players processed, and successful is the number of saves that
\* returned.
C29_DriverAccounting ==
    /\ Len(driver_log) <= Len(PlayerOrder)
    /\ \A i \in DOMAIN driver_log :
          /\ driver_log[i].player_id = PlayerOrder[i]
          /\ driver_log[i].save_called <=> driver_log[i].scraped = "record"
    /\ successful + failed_players = Len(driver_log)
    /\ successful = Cardinality({i \in DOMAIN driver_log : driver_log[i].saved = "returned"})
    /\ dpc = "done" => Len(driver_log) = Len(PlayerOrder)

\* A run in which the scrape of the first player raises, the second gives
\* None, the save of the third raises, and the fourth is saved.
C29_Witness ==
    /\ dpc = "done"
    /\ [i \in DOMAIN driver_log |-> driver_log[i].scraped] = <<"raises", "None", "record", "record">>
    /\ driver_log[3].saved = "raised" /\ driver_log[4].saved = "returned"
    /\ successful = 1 /\ failed_players = 3

\* ---------------------------------------------------------------------------
\* The counts of _extract_count for max_val 1 and the max_val of the source,
\* and the map of _count_accolades with an exception raised in its try block
\* at the start, after the first count, or not at all.

InitCounts ==
    /\ \E c \in CountCalls :
         /\ patterns = c.pats
         /\ max_val \in {1, c.mx}
         /\ text \in SeqsUpTo(c.alpha, c.len - 1)
    /\ count = 0 /\ cpc = "call"
    /\ html_text = <<>> /\ table_html = <<>>
    /\ IdleAccolades /\ IdleLocator /\ IdleUnmask /\ IdleRows /\ IdleCells
    /\ IdleAssembly /\ IdleScrape /\ IdleRequest /\ IdleRate /\ IdleThreads /\ IdleBio /\ IdleMain
        /\ IdleStore

InitAccoladesFailing ==
    /\ html_text \in SeqsUpTo({"7", "x", " ", "NBA", "Champ", "MVP"}, MaxDoc - 1)
    /\ failed \in [accolades : FailPoints]
    /\ accolades = <<>> /\ apc = "try"
    /\ table_html = <<>>
    /\ subject = <<>> /\ response = "" /\ selected = <<>> /\ stage = <<>>
    /\ result = "" /\ to_dict_data = <<>> /\ storage_calls = <<>>
    /\ save_result = "" /\ spc = "idle"
    /\ IdleCount /\ IdleLocator /\ IdleUnmask /\ IdleRows /\ IdleCells
    /\ IdleAssembly /\ IdleRequest /\ IdleRate /\ IdleThreads /\ IdleBio /\ IdleMain
    /\ IdleStore

InitWellFormed == InitCounts \/ InitAccoladesFailing

\* _count_accolades(html_text), with its handler of lines 591-594.
CountAccoladesFailing ==
    /\ apc = "try"
    /\ accolades' = accolades_of(html_text, failed.accolades)
    /\ apc' = "done"
    /\ UNCHANGED <<cvars, html_text, lvars, table_html, upc, rvars, xvars, yvars, svars,
                   mvars, tvars, pvars, bvars, dvars, fvars>>

NextWellFormed == ExtractCount \/ CountAccoladesFailing

SpecWellFormed == InitWellFormed /\ [][NextWellFormed]_vars

\* C30: _extract_count returns an integer from 0 to max_val; the map of
\* _count_accolades has the eight categories, each with an integer that is
\* not negative, and a category that was not counted before an exception
\* has 0.
C30_CountsWellFormed ==
    /\ cpc = "done" => count \in 0..max_val
    /\ apc = "done" =>
        /\ DOMAIN accolades = Categories
        /\ \A c \in Categories : accolades[c].t = "int" /\ accolades[c].n >= 0
        /\ failed.accolades = "start" => \A c \in Categories : accolades[c].n = 0
        /\ failed.accolades = "midway" =>
               \A c \in Categories \ {"championships"} : accolades[c].n = 0

\* An exception after the first count on a page with seven MVP awards: the
\* map has all categories, and 0 for mvp_awards.
C30_Witness ==
    /\ apc = "done" /\ failed.accolades = "midway"
    /\ html_text = <<"7", "x", "MVP">>
    /\ DOMAIN accolades = Categories
    /\ accolades["mvp_awards"] = IntV(0)

\* ---------------------------------------------------------------------------
\* LocalDataStore (storage_interface.py). A key is a string of characters; the
\* store keeps it as the file base_path / key. A path is the sequence of its
\* names below base_path; fs_files maps the paths of the files to their bytes
\* and fs_dirs holds the paths of the directories, <<>> being base_path.

\* Path(key): the names between the slashes, empty ones dropped.
RECURSIVE SplitKey(_, _)
SplitKey(key, name) ==
    IF key = <<>> THEN (IF name = <<>> THEN <<>> ELSE <<name>>)
    ELSE IF Head(key) = "/"
    THEN (IF name = <<>> THEN <<>> ELSE <<name>>) \o SplitKey(Tail(key), <<>>)
    ELSE SplitKey(Tail(key), Append(name, Head(key)))
PathOf(key) == SplitKey(key, <<>>)

\* str(path.relative_to(self.base_path))
RECURSIVE KeyOf(_)
KeyOf(path) ==
    IF path = <<>> THEN <<>>
    ELSE IF Len(path) = 1 THEN path[1]
    ELSE path[1] \o <<"/">> \o KeyOf(Tail(path))

\* ord() of a character, and the order of str that sorted() uses.
CharOrd(c) == CASE c = "/" -> 47 [] c = "a" -> 97 [] c = "b" -> 98 [] OTHER -> 0
RECURSIVE KeyLess(_, _)
KeyLess(k1, k2) ==
    IF k2 = <<>> THEN FALSE
    ELSE IF k1 = <<>> THEN TRUE
    ELSE IF Head(k1) # Head(k2) THEN CharOrd(Head(k1)) < CharOrd(Head(k2))
    ELSE KeyLess(Tail(k1), Tail(k2))
RECURSIVE SortedKeys(_)
SortedKeys(S) ==
    IF S = {} THEN <<>>
    ELSE LET least == CHOOSE k \in S : \A o \in S \ {k} : KeyLess(k, o)
         IN  <<least>> \o SortedKeys(S \ {least})

\* The directories above a path, base_path not counted.
Parents(path) == {SubSeq(path, 1, i) : i \in 1..(Len(path) - 1)}

\* Path.exists()
path_exists(files, dirs, path) == path \in DOMAIN files \/ path \in dirs

\* The outcome of a call: how it ended, and what it returned.
Outcome(status, value) == [status |-> status, value |-> value]

\* LocalDataStore.read
store_read(files, dirs, key) ==
    IF ~path_exists(files, dirs, PathOf(key)) THEN Outcome("FileNotFoundError", <<>>)
    ELSE IF PathOf(key) \in dirs THEN Outcome("IsADirectoryError", <<>>)
    ELSE Outcome("returned", <<files[PathOf(key)]>>)

\* LocalDataStore.exists
store_exists(files, dirs, key) ==
    Outcome("returned", IF path_exists(files, dirs, PathOf(key)) THEN <<"True">> ELSE <<"False">>)

\* LocalDataStore.list_keys: nothing for a path that is missing or a file,
\* else the files below the directory.
store_list_keys(files, dirs, prefix) ==
    IF PathOf(prefix) \notin dirs THEN Outcome("returned", <<>>)
    ELSE Outcome("returned",
                 SortedKeys({KeyOf(f) : f \in {g \in DOMAIN files :
                     /\ Len(g) > Len(PathOf(prefix))
                     /\ SubSeq(g, 1, Len(PathOf(prefix))) = PathOf(prefix)}}))

\* LocalDataStore.write: the status of file_path.parent.mkdir and open.
write_status(files, dirs, key) ==
    IF \E a \in Parents(PathOf(key)) : a \in DOMAIN files
    THEN (IF Len(PathOf(key)) > 1 /\ SubSeq(PathOf(key), 1, Len(PathOf(key)) - 1) \in DOMAIN files
          THEN "FileExistsError" ELSE "NotADirectoryError")
    ELSE IF PathOf(key) \in dirs THEN "IsADirectoryError"
    ELSE "returned"

\* LocalDataStore.delete: the status of file_path.unlink, when the path exists.
delete_status(files, dirs, key) ==
    IF PathOf(key) \in dirs THEN "IsADirectoryError" ELSE "returned"

StoreKeys == {<<"a">>, <<"a", "b">>, <<"a", "/", "b">>}
StorePrefixes == {<<>>, <<"a">>, <<"a", "/">>, <<"a", "b">>, <<"a", "/", "b">>, <<"b">>}
StoreData == {"x", "y"}

\* LocalDataStore(base_path): base_path is made, and is empty.
InitStore ==
    /\ fs_files = [q \in {} |-> ""]
    /\ fs_dirs = {<<>>}
    /\ last_call = [op |-> "__init__", key |-> <<>>, data |-> "", outcome |-> Outcome("returned", <<>>)]
    /\ html_text = <<>> /\ table_html = <<>>
    /\ IdleCount /\ IdleAccolades /\ IdleLocator /\ IdleUnmask /\ IdleRows /\ IdleCells
    /\ IdleAssembly /\ IdleScrape /\ IdleRequest /\ IdleRate /\ IdleThreads /\ IdleBio /\ IdleMain

OtherThanStore ==
    <<cvars, html_text, avars, lvars, table_html, upc, rvars, xvars, yvars, svars, mvars, tvars,
      pvars, bvars, dvars>>

StoreRead ==
    /\ \E key \in StoreKeys :
         last_call' = [op |-> "read", key |-> key, data |-> "",
                       outcome |-> store_read(fs_files, fs_dirs, key)]
    /\ UNCHANGED <<fs_files, fs_dirs, OtherThanStore>>

\* mkdir makes the missing directories above the file before open is tried.
StoreWrite ==
    /\ \E key \in StoreKeys, data \in StoreData :
         \E st \in {write_status(fs_files, fs_dirs, key)} :
           /\ last_call' = [op |-> "write", key |-> key, data |-> data,
                            outcome |-> Outcome(st, <<>>)]
           /\ fs_dirs' = IF st \in {"FileExistsError", "NotADirectoryError"} THEN fs_dirs
                         ELSE fs_dirs \cup Parents(PathOf(key))
           /\ fs_files' = IF st # "returned" THEN fs_files
                          ELSE [q \in DOMAIN fs_files \cup {PathOf(key)} |->
                                   IF q = PathOf(key) THEN data ELSE fs_files[q]]
    /\ UNCHANGED OtherThanStore

StoreExists ==
    /\ \E key \in StoreKeys :
         last_call' = [op |-> "exists", key |-> key, data |-> "",
                       outcome |-> store_exists(fs_files, fs_dirs, key)]
    /\ UNCHANGED <<fs_files, fs_dirs, OtherThanStore>>

StoreListKeys ==
    /\ \E prefix \in StorePrefixes :
         last_call' = [op |-> "list_keys", key |-> prefix, data |-> "",
                       outcome |-> store_list_keys(fs_files, fs_dirs, prefix)]
    /\ UNCHANGED <<fs_files, fs_dirs, OtherThanStore>>

StoreDelete ==
    /\ \E key \in StoreKeys :
         IF path_exists(fs_files, fs_dirs, PathOf(key))
         THEN /\ last_call' = [op |-> "delete", key |-> key, data |-> "",
                               outcome |-> Outcome(delete_status(fs_files, fs_dirs, key), <<>>)]
              /\ fs_files' = IF delete_status(fs_files, fs_dirs, key) # "returned" THEN fs_files
                             ELSE [q \in DOMAIN fs_files \ {PathOf(key)} |-> fs_files[q]]
         ELSE /\ last_call' = [op |-> "delete", key |-> key, data |-> "",
                               outcome |-> Outcome("returned", <<>>)]
              /\ UNCHANGED fs_files
    /\ UNCHANGED <<fs_dirs, OtherThanStore>>

NextStore == StoreRead \/ StoreWrite \/ StoreExists \/ StoreListKeys \/ StoreDelete

SpecStore == InitStore /\ [][NextStore]_vars

\* The keys that are stored: those of the files.
StoredKeys == {KeyOf(f) : f \in DOMAIN fs_files}

\* prefix is the beginning of key, as strings.
StartsWith(key, prefix) ==
    Len(prefix) <= Len(key) /\ SubSeq(key, 1, Len(prefix)) = prefix

\* C22: every write succeeds, also of a key that is a path-prefix of a stored
\* key or has a stored key as a path-prefix, and read(k) returns the bytes
\* that the last write of k stored, unless k was deleted since.
C22_KeyValueStore ==
    /\ last_call.op = "write" =>
          /\ last_call.outcome.status = "returned"
          /\ last_call.key \in StoredKeys
          /\ fs_files[PathOf(last_call.key)] = last_call.data
    /\ last_call.op = "read" =>
          IF last_call.key \in StoredKeys
          THEN last_call.outcome = Outcome("returned", <<fs_files[PathOf(last_call.key)]>>)
          ELSE last_call.outcome.status = "FileNotFoundError"

\* C23: exists(k) is true exactly when k is stored: written, and not deleted
\* since; it is false for a key that is only a path-prefix of a stored key.
C23_ExistsIffStored ==
    last_call.op = "exists" =>
        last_call.outcome.value = IF last_call.key \in StoredKeys THEN <<"True">> ELSE <<"False">>

\* C24: list_keys(prefix) returns the stored keys that start with prefix, each
\* once, in sorted order, for every prefix: the empty one, a directory name,
\* a part of a name, and a whole stored key.
C24_ListByPrefix ==
    last_call.op = "list_keys" =>
        last_call.outcome.value = SortedKeys({k \in StoredKeys : StartsWith(k, last_call.key)})

====
